---- MODULE Spec2Model ----
(***************************************************************************)
(* Model of runex: the wildcard engine (runex/wildmatch.py) and the        *)
(* .gitignore rule resolver (runex/ignore_logic.py).                       *)
(*                                                                         *)
(* A string is a sequence of one-character strings.                        *)
(***************************************************************************)
EXTENDS Integers, Sequences, FiniteSets, TLC

VARIABLES
    pc,          \* scanner life cycle: "new" | "loaded" | "called"
    casefold,    \* GitIgnoreScanner.casefold
    rulefiles,   \* the .gitignore files on disk: scope directory -> lines
    patterns,    \* GitIgnoreScanner.patterns
    call,        \* the last call made on the scanner or on one of its rules
    ncalls,      \* how many should_ignore() calls the scanner has answered
    w_pc,        \* wildcard engine call: "idle" | "done"
    w_pattern,   \* wildmatch() argument pattern
    w_text,      \* wildmatch() argument text
    w_flags,     \* wildmatch() argument flags
    w_dowild,    \* outcome of dowild(pattern, text, flags)
    w_res        \* outcome of wildmatch(pattern, text, flags)

vars == <<pc, casefold, rulefiles, patterns, call, ncalls,
          w_pc, w_pattern, w_text, w_flags, w_dowild, w_res>>

scan_vars == <<pc, casefold, rulefiles, patterns, call, ncalls>>
wild_vars == <<w_pc, w_pattern, w_text, w_flags, w_dowild, w_res>>

----------------------------------------------------------------------------
(* Bounds of the model.                                                    *)

MaxPatLen  == 3    \* longest wildcard pattern given to wildmatch()
MaxTextLen == 3    \* longest text given to wildmatch()
MaxRules   == 2    \* most rule lines over all .gitignore files
MaxSegs    == 4    \* most segments of a path tried on a single rule
MaxMembers == 2    \* most members of a bracket expression
MaxCalls   == 2    \* most should_ignore() calls on one scanner

----------------------------------------------------------------------------
(* Characters.  A character is a one-character string; the two characters *)
(* a TLA+ string cannot hold are named.                                    *)

Grave == "grave"    \* U+0060, the backtick
VT    == "vt"       \* U+000B, '\v'

\* the characters of the model in the order of their code points: the
\* white space U+0009 to U+000D, the printable ASCII characters U+0020 to
\* U+007E, and the letters U+00C0, U+00DF and U+00E0
CharTable ==
    <<"\t", "\n", VT, "\f", "\r",
      " ", "!", "\"", "#", "$", "%", "&", "'", "(", ")", "*", "+", ",", "-",
      ".", "/", "0", "1", "2", "3", "4", "5", "6", "7", "8", "9", ":", ";",
      "<", "=", ">", "?", "@", "A", "B", "C", "D", "E", "F", "G", "H", "I",
      "J", "K", "L", "M", "N", "O", "P", "Q", "R", "S", "T", "U", "V", "W",
      "X", "Y", "Z", "[", "\\", "]", "^", "_", Grave, "a", "b", "c", "d",
      "e", "f", "g", "h", "i", "j", "k", "l", "m", "n", "o", "p", "q", "r",
      "s", "t", "u", "v", "w", "x", "y", "z", "{", "|", "}", "~",
      "À", "ß", "à">>

Chars == {CharTable[i] : i \in DOMAIN CharTable}

\* the code point of the i-th character of CharTable
CodeAt(i) ==
    IF i <= 5 THEN i + 8
    ELSE IF i <= 100 THEN i + 26
    ELSE IF i = 101 THEN 192
    ELSE i + 121

\* the code point of every character of the model
CodePoints ==
    [c \in Chars |-> CodeAt(CHOOSE i \in DOMAIN CharTable : CharTable[i] = c)]

\* ord(c)
Ord(c) == CodePoints[c]

IsDigitCode(n) == n \in 48..57
IsUpperCode(n) == n \in 65..90 \/ n = 192
IsLowerCode(n) == n \in 97..122 \/ n = 223 \/ n = 224
IsAlphaCode(n) == IsUpperCode(n) \/ IsLowerCode(n)
IsSpaceCode(n) == n \in 9..13 \/ n = 32

\* the code point of chr(n).lower(), and of the upper-case letter of which
\* chr(n) is the lower case
LowerCode(n) == IF n \in 65..90 \/ n = 192 THEN n + 32 ELSE n
UpperCode(n) == IF n \in 97..122 \/ n = 224 THEN n - 32 ELSE n

\* str.isalpha(), str.isupper(), str.islower() on one character
posix_alpha(ch) == IsAlphaCode(Ord(ch))
posix_upper(ch) == IsUpperCode(Ord(ch))
posix_lower(ch) == IsLowerCode(Ord(ch))

\* unicodedata.category(ch) == "Cc"
posix_cntrl(ch) == Ord(ch) < 32 \/ Ord(ch) \in 127..159

\* ch.isprintable() and not unicodedata.category(ch).startswith("C")
posix_print(ch) == Ord(ch) \in 32..126 \/ Ord(ch) \in {192, 223, 224}

\* unicodedata.category(ch).startswith("P")
posix_punct(ch) ==
    ch \in {"!", "\"", "#", "%", "&", "'", "(", ")", "*", ",", "-", ".", "/",
            ":", ";", "?", "@", "[", "\\", "]", "_", "{", "}"}

\* chr(n)
Chr(n) ==
    CharTable[IF n <= 13 THEN n - 8
              ELSE IF n <= 126 THEN n - 26
              ELSE IF n = 192 THEN 101
              ELSE n - 121]

\* str.lower() on one character
Lower(c) == IF IsUpperCode(Ord(c)) THEN Chr(LowerCode(Ord(c))) ELSE c

\* the upper-case letter of a lower-case letter
Upper(c) == IF IsLowerCode(Ord(c)) THEN Chr(UpperCode(Ord(c))) ELSE c

----------------------------------------------------------------------------
(* Strings.                                                                *)

\* str.lower()
LowerStr(s) == [i \in 1..Len(s) |-> Lower(s[i])]

\* s[i:] with a 0-based index i
From(s, i) == SubSeq(s, i + 1, Len(s))

\* s[m..n] with 1-based indices, cut at the end of s as a Python slice is
Slice1(s, m, n) == SubSeq(s, m, IF n > Len(s) THEN Len(s) ELSE n)

\* s.startswith(pre)
StartsWith(s, pre) ==
    Len(s) >= Len(pre) /\ SubSeq(s, 1, Len(pre)) = pre

\* c in s
Contains(s, c) == \E i \in 1..Len(s) : s[i] = c

----------------------------------------------------------------------------
(* Python's re, as far as the regular expressions of compile_regex() and   *)
(* of dowild() need it.  re.escape() and re.compile() work on strings; a   *)
(* compiled regex is a sequence of tokens, and fullmatch() anchors it at   *)
(* both ends.                                                              *)

\* the token of one construct: k is its kind, c the character of a literal,
\* sub the tokens of a group or the token under a '*', neg and items the
\* negation and the members of a character set
ReTok(k, c, sub, neg, items) ==
    [k |-> k, c |-> c, sub |-> sub, neg |-> neg, items |-> items]

\* members of a character set: the code points lo..hi, or a category \d \D
\* \w \W \s \S
ReRange(lo, hi) == [k |-> "range", lo |-> lo, hi |-> hi, cat |-> ""]
ReCat(cat)      == [k |-> "cat", lo |-> 0, hi |-> 0, cat |-> cat]

ReLit(c)        == ReTok("lit", c, <<>>, FALSE, <<>>)     \* a literal
ReDot           == ReTok("dot", "", <<>>, FALSE, <<>>)    \* .
ReBol           == ReTok("bol", "", <<>>, FALSE, <<>>)    \* ^
ReEol           == ReTok("eol", "", <<>>, FALSE, <<>>)    \* $
ReEos           == ReTok("eos", "", <<>>, FALSE, <<>>)    \* \Z
ReBoundary(neg) == ReTok("boundary", "", <<>>, neg, <<>>) \* \b, \B
ReSet(neg, items) == ReTok("set", "", <<>>, neg, items)   \* [...]
ReStar(tok)     == ReTok("star", "", <<tok>>, FALSE, <<>>) \* tok*
ReGroup(sub)    == ReTok("group", "", sub, FALSE, <<>>)   \* (?:sub)
ReOpt(sub)      == ReTok("opt", "", sub, FALSE, <<>>)     \* (?:sub)?
ReNoSlash       == ReSet(TRUE, <<ReRange(47, 47)>>)       \* [^/]
ReNoSlashes     == ReStar(ReNoSlash)                      \* [^/]*
ReAny           == ReStar(ReDot)                          \* .*

\* the characters re.escape() puts a backslash before
ReSpecial ==
    {"(", ")", "[", "]", "{", "}", "?", "*", "+", "-", "|", "^", "$", "\\",
     ".", "&", "~", "#", " ", "\t", "\n", "\r", VT, "\f"}

\* re.escape(c) for one character
re_escape(c) == IF c \in ReSpecial THEN <<"\\", c>> ELSE <<c>>

\* the value of a hexadecimal digit, -1 for another character
HexOfCode(n) ==
    IF IsDigitCode(n) THEN n - 48
    ELSE IF n \in 65..70 THEN n - 55
    ELSE IF n \in 97..102 THEN n - 87
    ELSE -1

HexVal(c) == HexOfCode(Ord(c))

IsOctal(c) == Ord(c) \in 48..55

\* a failed parse
ReError == [ok |-> FALSE, item |-> ReRange(0, 0), i |-> 0]

\* sre_parse._class_escape: the member a backslash at s[i] starts inside a
\* character set, and the index behind it.  The escapes \u, \U and \N are
\* not modelled; no string of the model holds them.
ClassEscape(s, i) ==
    IF i + 1 > Len(s)
    THEN ReError
    ELSE
    LET e == s[i + 1] IN
    IF e \in {"d", "D", "w", "W", "s", "S"}
    THEN [ok |-> TRUE, item |-> ReCat(e), i |-> i + 2]
    ELSE IF e = "x"
    THEN IF i + 3 <= Len(s) /\ HexVal(s[i + 2]) >= 0 /\ HexVal(s[i + 3]) >= 0
         THEN LET n == 16 * HexVal(s[i + 2]) + HexVal(s[i + 3])
              IN [ok |-> TRUE, item |-> ReRange(n, n), i |-> i + 4]
         ELSE ReError
    ELSE IF IsOctal(e)
    THEN LET d2 == i + 2 <= Len(s) /\ IsOctal(s[i + 2])
             d3 == d2 /\ i + 3 <= Len(s) /\ IsOctal(s[i + 3])
             n  == IF d3
                   THEN 64 * (Ord(e) - 48) + 8 * (Ord(s[i + 2]) - 48)
                        + (Ord(s[i + 3]) - 48)
                   ELSE IF d2
                   THEN 8 * (Ord(e) - 48) + (Ord(s[i + 2]) - 48)
                   ELSE Ord(e) - 48
             j  == IF d3 THEN i + 4 ELSE IF d2 THEN i + 3 ELSE i + 2
         IN IF n > 255
            THEN ReError
            ELSE [ok |-> TRUE, item |-> ReRange(n, n), i |-> j]
    ELSE IF e \in {"a", "b", "f", "n", "r", "t", "v"}
    THEN LET n == CASE e = "a" -> 7
                    [] e = "b" -> 8
                    [] e = "f" -> 12
                    [] e = "n" -> 10
                    [] e = "r" -> 13
                    [] e = "t" -> 9
                    [] e = "v" -> 11
         IN [ok |-> TRUE, item |-> ReRange(n, n), i |-> i + 2]
    ELSE IF IsDigitCode(Ord(e)) \/ Ord(e) \in 65..90 \/ Ord(e) \in 97..122
    THEN ReError
    ELSE [ok |-> TRUE, item |-> ReRange(Ord(e), Ord(e)), i |-> i + 2]

\* one member of a character set read at s[i]: a character or an escape
ClassCode(s, i) ==
    IF s[i] = "\\"
    THEN ClassEscape(s, i)
    ELSE [ok |-> TRUE, item |-> ReRange(Ord(s[i]), Ord(s[i])), i |-> i + 1]

\* sre_parse._parse, the loop over the members of a character set: i is the
\* index of the next character, first holds before the first member, when
\* a ']' is a member and does not end the set.  The value is the members
\* and the index behind the closing ']'.
RECURSIVE ParseSetItems(_, _, _, _)

\* the range code1-code2
ParseSetRange(s, i, items, code1, code2) ==
    IF ~code2.ok
       \/ code1.item.k = "cat" \/ code2.item.k = "cat"
       \/ code2.item.lo < code1.item.lo
    THEN [ok |-> FALSE, items |-> <<>>, i |-> i]
    ELSE ParseSetItems(s, code2.i, FALSE,
                       Append(items, ReRange(code1.item.lo, code2.item.lo)))

\* the member code1 read at s[i], which a '-' may make the start of a range
ParseSetMember(s, i, items, code1) ==
    IF ~code1.ok
    THEN [ok |-> FALSE, items |-> <<>>, i |-> i]
    ELSE IF code1.i <= Len(s) /\ s[code1.i] = "-"
    THEN IF code1.i + 1 > Len(s)
         THEN [ok |-> FALSE, items |-> <<>>, i |-> i]
         ELSE IF s[code1.i + 1] = "]"
         THEN [ok |-> TRUE,
               items |-> items \o <<code1.item, ReRange(45, 45)>>,
               i |-> code1.i + 2]
         ELSE ParseSetRange(s, i, items, code1, ClassCode(s, code1.i + 1))
    ELSE ParseSetItems(s, code1.i, FALSE, Append(items, code1.item))

ParseSetItems(s, i, first, items) ==
    IF i > Len(s)
    THEN [ok |-> FALSE, items |-> <<>>, i |-> i]
    ELSE IF s[i] = "]" /\ ~first
    THEN [ok |-> TRUE, items |-> items, i |-> i + 1]
    ELSE ParseSetMember(s, i, items, ClassCode(s, i))

\* the character set of the members r
SetToken(neg, r) == [ok |-> r.ok, tok |-> ReSet(neg, r.items), i |-> r.i]

\* a character set: i is the index behind the '['
ParseSet(s, i) ==
    LET neg == i <= Len(s) /\ s[i] = "^"
    IN SetToken(neg, ParseSetItems(s, IF neg THEN i + 1 ELSE i, TRUE, <<>>))

\* the token of an escape that stands for one character
EscapeToken(code) ==
    [ok |-> code.ok, tok |-> ReSet(FALSE, <<code.item>>), i |-> code.i]

\* sre_parse._escape: the token a backslash at s[i] starts outside a
\* character set, and the index behind it.  A digit behind the backslash
\* refers to a group, and the regular expressions of the model have no
\* numbered group.
TopEscape(s, i) ==
    IF i + 1 > Len(s)
    THEN [ok |-> FALSE, tok |-> ReDot, i |-> i]
    ELSE
    LET e == s[i + 1] IN
    IF e \in {"d", "D", "w", "W", "s", "S"}
    THEN [ok |-> TRUE, tok |-> ReSet(FALSE, <<ReCat(e)>>), i |-> i + 2]
    ELSE IF e = "A"
    THEN [ok |-> TRUE, tok |-> ReBol, i |-> i + 2]
    ELSE IF e = "Z"
    THEN [ok |-> TRUE, tok |-> ReEos, i |-> i + 2]
    ELSE IF e = "b"
    THEN [ok |-> TRUE, tok |-> ReBoundary(FALSE), i |-> i + 2]
    ELSE IF e = "B"
    THEN [ok |-> TRUE, tok |-> ReBoundary(TRUE), i |-> i + 2]
    ELSE IF e = "0" \/ e \in {"x", "a", "f", "n", "r", "t", "v"}
              \/ ~(IsDigitCode(Ord(e)) \/ Ord(e) \in 65..90
                                       \/ Ord(e) \in 97..122)
    THEN EscapeToken(ClassEscape(s, i))
    ELSE [ok |-> FALSE, tok |-> ReDot, i |-> i]

\* sre_parse._parse: the tokens of s from index i up to the end of s or to
\* the ')' that closes the group begun before i, and the index where the
\* parse stopped.  The constructs are ^ $ . [...] (?:...) and the escapes,
\* with the repeats * and ? behind a token that takes one character and ?
\* behind a group; the regular expressions of the model hold no other
\* construct ('|', '+', '{' outside a character set, a repeated group).
RECURSIVE ParseSeq(_, _, _)

\* the group whose '(' stands at s[i] and whose tokens are inner
ParseGroup(s, i, inner) ==
    IF inner.ok /\ inner.i <= Len(s)
    THEN [ok |-> TRUE, tok |-> ReGroup(inner.toks), i |-> inner.i + 1]
    ELSE [ok |-> FALSE, tok |-> ReDot, i |-> i]

\* the token that starts at s[i], without its repeat
ParseAtom(s, i) ==
    IF s[i] = "["
    THEN ParseSet(s, i + 1)
    ELSE IF s[i] = "("
    THEN ParseGroup(s, i,
                    ParseSeq(s, IF Slice1(s, i + 1, i + 2) = <<"?", ":">>
                                THEN i + 3 ELSE i + 1, <<>>))
    ELSE IF s[i] = "\\"
    THEN TopEscape(s, i)
    ELSE IF s[i] \in {"*", "?"}
    THEN [ok |-> FALSE, tok |-> ReDot, i |-> i]
    ELSE IF s[i] = "."
    THEN [ok |-> TRUE, tok |-> ReDot, i |-> i + 1]
    ELSE IF s[i] = "^"
    THEN [ok |-> TRUE, tok |-> ReBol, i |-> i + 1]
    ELSE IF s[i] = "$"
    THEN [ok |-> TRUE, tok |-> ReEol, i |-> i + 1]
    ELSE [ok |-> TRUE, tok |-> ReLit(s[i]), i |-> i + 1]

\* the token tok under the repeat '*' or '?'
Repeated(repeat, tok) ==
    IF repeat = "*"
    THEN ReStar(tok)
    ELSE IF tok.k = "group"
    THEN ReOpt(tok.sub)
    ELSE ReOpt(<<tok>>)

\* the token atom that started at s[i], with the repeat behind it, and the
\* tokens that follow
ParseRepeat(s, i, toks, atom) ==
    IF ~atom.ok
    THEN [ok |-> FALSE, toks |-> <<>>, i |-> i]
    ELSE IF atom.i <= Len(s) /\ s[atom.i] \in {"*", "?"}
    THEN IF atom.tok.k \in {"bol", "eol", "eos", "boundary"}
            \/ (atom.i + 1 <= Len(s) /\ s[atom.i + 1] = "*")
         THEN [ok |-> FALSE, toks |-> <<>>, i |-> i]
         ELSE ParseSeq(s,
                  IF atom.i + 1 <= Len(s) /\ s[atom.i + 1] = "?"
                  THEN atom.i + 2 ELSE atom.i + 1,
                  Append(toks, Repeated(s[atom.i], atom.tok)))
    ELSE ParseSeq(s, atom.i, Append(toks, atom.tok))

ParseSeq(s, i, toks) ==
    IF i > Len(s) \/ s[i] = ")"
    THEN [ok |-> TRUE, toks |-> toks, i |-> i]
    ELSE ParseRepeat(s, i, toks, ParseAtom(s, i))

\* the compiled regex of the parse r of s
Compiled(s, r) ==
    [ok |-> r.ok /\ r.i > Len(s),
     re |-> IF r.ok /\ r.i > Len(s) THEN r.toks ELSE <<>>]

\* re.compile(s): ok is false when re.compile raises re.error
re_compile(s) == Compiled(s, ParseSeq(s, 1, <<>>))

\* the character of code point n is a member of the category \d \D \w \W
\* \s \S
CodeInCategory(cat, n) ==
    CASE cat = "d" -> IsDigitCode(n)
      [] cat = "D" -> ~IsDigitCode(n)
      [] cat = "w" -> IsAlphaCode(n) \/ IsDigitCode(n) \/ n = 95
      [] cat = "W" -> ~(IsAlphaCode(n) \/ IsDigitCode(n) \/ n = 95)
      [] cat = "s" -> IsSpaceCode(n)
      [] cat = "S" -> ~IsSpaceCode(n)

InCategory(cat, ch) == CodeInCategory(cat, Ord(ch))

\* the character of code point n is one of the members items of a character
\* set; under re.IGNORECASE a member stands for both cases of its letters
CodeInItems(items, n, icase) ==
    \E k \in 1..Len(items) :
       LET it == items[k] IN
       IF it.k = "cat"
       THEN CodeInCategory(it.cat, n)
       ELSE \/ n \in it.lo..it.hi
            \/ /\ icase
               /\ \/ LowerCode(n) \in it.lo..it.hi
                  \/ UpperCode(n) \in it.lo..it.hi

InItems(items, ch, icase) == CodeInItems(items, Ord(ch), icase)

\* a token that takes one character takes the character ch
ReTakes(t, ch, icase) ==
    CASE t.k = "lit" -> IF icase THEN Lower(ch) = Lower(t.c) ELSE ch = t.c
      [] t.k = "dot" -> ch # "\n"
      [] t.k = "set" -> InItems(t.items, ch, icase) # t.neg
      [] OTHER -> FALSE

\* re.Pattern.fullmatch(s) from token i and position j (both 1-based);
\* icase is re.IGNORECASE
RECURSIVE ReMatch(_, _, _, _, _)
ReMatch(re, i, s, j, icase) ==
    IF i > Len(re)
    THEN j > Len(s)
    ELSE
    LET t == re[i] IN
    CASE t.k \in {"lit", "dot", "set"} ->
           /\ j <= Len(s)
           /\ ReTakes(t, s[j], icase)
           /\ ReMatch(re, i + 1, s, j + 1, icase)
      [] t.k = "bol" ->
           /\ j = 1
           /\ ReMatch(re, i + 1, s, j, icase)
      [] t.k = "eol" ->
           /\ j > Len(s) \/ (j = Len(s) /\ s[j] = "\n")
           /\ ReMatch(re, i + 1, s, j, icase)
      [] t.k = "eos" ->
           /\ j > Len(s)
           /\ ReMatch(re, i + 1, s, j, icase)
      [] t.k = "boundary" ->
           /\ ((j > 1 /\ InCategory("w", s[j - 1]))
                 # (j <= Len(s) /\ InCategory("w", s[j]))) # t.neg
           /\ ReMatch(re, i + 1, s, j, icase)
      [] t.k = "star" ->
           \/ ReMatch(re, i + 1, s, j, icase)
           \/ /\ j <= Len(s)
              /\ ReTakes(t.sub[1], s[j], icase)
              /\ ReMatch(re, i, s, j + 1, icase)
      [] t.k = "group" ->
           ReMatch(t.sub \o SubSeq(re, i + 1, Len(re)), 1, s, j, icase)
      [] t.k = "opt" ->
           \/ ReMatch(re, i + 1, s, j, icase)
           \/ ReMatch(t.sub \o SubSeq(re, i + 1, Len(re)), 1, s, j, icase)

----------------------------------------------------------------------------
(* runex/wildmatch.py                                                      *)

WM_ABORT_ALL         == -1
WM_ABORT_TO_STARSTAR == -2
WM_MATCH             == 1
WM_NOMATCH           == 0

WM_CASEFOLD == 1
WM_PATHNAME == 2
WM_UNICODE  == 4

\* flags & bit
HasFlag(flags, bit) == (flags \div bit) % 2 = 1

\* the index reached by "while p < len(pattern) and pattern[p] == '*': p += 1"
RECURSIVE SkipStars(_, _)
SkipStars(pattern, p) ==
    IF p < Len(pattern) /\ pattern[p + 1] = "*"
    THEN SkipStars(pattern, p + 1)
    ELSE p

\* the names of POSIX_MAPPING
Name_alnum == <<"a", "l", "n", "u", "m">>
Name_alpha == <<"a", "l", "p", "h", "a">>
Name_ascii == <<"a", "s", "c", "i", "i">>
Name_blank == <<"b", "l", "a", "n", "k">>
Name_cntrl == <<"c", "n", "t", "r", "l">>
Name_digit == <<"d", "i", "g", "i", "t">>
Name_graph == <<"g", "r", "a", "p", "h">>
Name_lower == <<"l", "o", "w", "e", "r">>
Name_print == <<"p", "r", "i", "n", "t">>
Name_punct == <<"p", "u", "n", "c", "t">>
Name_space == <<"s", "p", "a", "c", "e">>
Name_upper == <<"u", "p", "p", "e", "r">>
Name_word == <<"w", "o", "r", "d">>
Name_xdigit == <<"x", "d", "i", "g", "i", "t">>

\* POSIX_MAPPING.get(cls, ('', ''))[0]: the ASCII expansion
PosixAscii(cls) ==
    CASE cls = Name_alnum ->
        <<"a", "-", "z", "A", "-", "Z", "0", "-", "9">>
      [] cls = Name_alpha ->
        <<"a", "-", "z", "A", "-", "Z">>
      [] cls = Name_ascii ->
        <<"\\", "x", "0", "0", "-", "\\", "x", "7", "F">>
      [] cls = Name_blank ->
        <<" ", "\t">>
      [] cls = Name_cntrl ->
        <<"\\", "x", "0", "0", "-", "\\", "x", "1", "F", "\\", "x",
          "7", "F">>
      [] cls = Name_digit ->
        <<"0", "-", "9">>
      [] cls = Name_graph ->
        <<"\\", "x", "2", "1", "-", "\\", "x", "7", "E">>
      [] cls = Name_lower ->
        <<"a", "-", "z">>
      [] cls = Name_print ->
        <<"\\", "x", "2", "0", "-", "\\", "x", "7", "E">>
      [] cls = Name_punct ->
        <<"!", "\"", "\\", "#", "$", "%", "&", "'", "(", ")", "*", "+",
          ",", "\\", "-", ".", "/", ":", ";", "<", "=", ">", "?", "@",
          "\\", "[", "\\", "\\", "\\", "]", "^", "_", Grave, "{", "|",
          "}", "~">>
      [] cls = Name_space ->
        <<" ", "\t", "\r", "\n", VT, "\f">>
      [] cls = Name_upper ->
        <<"A", "-", "Z">>
      [] cls = Name_word ->
        <<"A", "-", "Z", "a", "-", "z", "0", "-", "9", "_">>
      [] cls = Name_xdigit ->
        <<"A", "-", "F", "a", "-", "f", "0", "-", "9">>
      [] OTHER -> <<>>

\* the names whose Unicode expansion in POSIX_MAPPING is None
PosixUnicodeIsNone(cls) ==
    cls \in {Name_alpha, Name_cntrl, Name_graph, Name_lower, Name_print,
             Name_punct, Name_upper}

\* POSIX_MAPPING.get(cls, ('', ''))[1]: the Unicode expansion where it is
\* not None
PosixUnicode(cls) ==
    CASE cls = Name_alnum ->
        <<"\\", "w">>
      [] cls = Name_ascii ->
        <<"\\", "x", "0", "0", "-", "\\", "x", "7", "F">>
      [] cls = Name_blank ->
        <<" ", "\t">>
      [] cls = Name_digit ->
        <<"\\", "d">>
      [] cls = Name_space ->
        <<"\\", "s">>
      [] cls = Name_word ->
        <<"\\", "w">>
      [] cls = Name_xdigit ->
        <<"A", "-", "F", "a", "-", "f", "0", "-", "9">>
      [] OTHER -> <<>>

\* the end of the run of characters with code points in lo..hi that begins
\* at s[i]: the index of the first character behind the run
RECURSIVE RunEnd(_, _, _, _)
RunEnd(s, i, lo, hi) ==
    IF i <= Len(s) /\ Ord(s[i]) \in lo..hi
    THEN RunEnd(s, i + 1, lo, hi)
    ELSE i

\* repl() of expand_posix_classes: the expansion of the class name cls
PosixExpansion(cls, flags) ==
    IF HasFlag(flags, WM_UNICODE) /\ ~PosixUnicodeIsNone(cls)
    THEN PosixUnicode(cls)
    ELSE PosixAscii(cls)

\* expand_posix_classes: re.sub of r'\[:([a-z]+):\]' in content, from the
\* 1-based index i on
RECURSIVE expand_posix_classes_from(_, _, _)
expand_posix_classes_from(content, i, flags) ==
    IF i > Len(content)
    THEN <<>>
    ELSE
    LET e == RunEnd(content, i + 2, 97, 122) IN
    IF /\ Slice1(content, i, i + 1) = <<"[", ":">>
       /\ e > i + 2
       /\ Slice1(content, e, e + 1) = <<":", "]">>
    THEN PosixExpansion(Slice1(content, i + 2, e - 1), flags)
         \o expand_posix_classes_from(content, e + 2, flags)
    ELSE <<content[i]>> \o expand_posix_classes_from(content, i + 1, flags)

expand_posix_classes(content, flags) ==
    expand_posix_classes_from(content, 1, flags)

\* pattern.find(":]", start): the 0-based index of the first ":]" at or
\* behind start, -1 when there is none
RECURSIVE FindClassEnd(_, _)
FindClassEnd(pattern, start) ==
    IF start + 2 > Len(pattern)
    THEN -1
    ELSE IF Slice1(pattern, start + 1, start + 2) = <<":", "]">>
    THEN start
    ELSE FindClassEnd(pattern, start + 1)

\* the loop of dowild that looks for the ']' of a bracket expression: the
\* 0-based index p where it stops
RECURSIVE BracketScan(_, _)
BracketScan(pattern, p) ==
    IF p >= Len(pattern)
    THEN p
    ELSE IF Slice1(pattern, p + 1, p + 2) = <<"[", ":">>
    THEN LET idx == FindClassEnd(pattern, p + 2)
         IN IF idx = -1
            THEN Len(pattern)
            ELSE BracketScan(pattern, idx + 2)
    ELSE IF pattern[p + 1] = "]"
    THEN p
    ELSE BracketScan(pattern, p + 1)

\* re.fullmatch(r"\[:([a-z]+):\]", bracket_content, re.IGNORECASE)
IsPosixClass(content) ==
    /\ Len(content) >= 5
    /\ Slice1(content, 1, 2) = <<"[", ":">>
    /\ Slice1(content, Len(content) - 1, Len(content)) = <<":", "]">>
    /\ \A n \in 3..(Len(content) - 2) :
          Ord(content[n]) \in 65..90 \/ Ord(content[n]) \in 97..122

\* m.group(1).lower()
PosixClassKey(content) == LowerStr(Slice1(content, 3, Len(content) - 2))

\* the keys of custom_classes
CustomClasses ==
    {Name_alpha, Name_cntrl, Name_lower, Name_print, Name_punct, Name_upper}

\* custom_classes[cls_key](ch)
CustomClass(cls_key, ch) ==
    CASE cls_key = Name_alpha -> posix_alpha(ch)
      [] cls_key = Name_cntrl -> posix_cntrl(ch)
      [] cls_key = Name_lower -> posix_lower(ch)
      [] cls_key = Name_print -> posix_print(ch)
      [] cls_key = Name_punct -> posix_punct(ch)
      [] cls_key = Name_upper -> posix_upper(ch)

\* re.compile(f"^[{expanded}]$", re_flags), or with "[^" when negated
class_regex(expanded, negated) ==
    re_compile(<<"^", "[">> \o (IF negated THEN <<"^">> ELSE <<>>)
               \o expanded \o <<"]", "$">>)

\* class_regex.fullmatch(ch) as WM_MATCH or WM_NOMATCH; WM_ABORT_ALL when
\* re.compile raised re.error
class_matched(re, ch, icase) ==
    IF re.ok
    THEN (IF ReMatch(re.re, 1, <<ch>>, 1, icase)
          THEN WM_MATCH ELSE WM_NOMATCH)
    ELSE WM_ABORT_ALL

\* the bracket branch of dowild on the content between '[' and ']' and the
\* first character of the text: WM_MATCH or WM_NOMATCH for matched,
\* WM_ABORT_ALL when re.compile raises re.error
bracket_matched(bracket_content, ch, flags) ==
    LET negated == bracket_content # <<>>
                   /\ bracket_content[1] \in {"!", "^"}
        content == IF negated THEN Tail(bracket_content) ELSE bracket_content
        icase   == HasFlag(flags, WM_CASEFOLD)
    IN
    IF IsPosixClass(content) /\ HasFlag(flags, WM_UNICODE)
    THEN IF PosixClassKey(content) \in CustomClasses
         THEN (IF CustomClass(PosixClassKey(content), ch)
               THEN WM_MATCH ELSE WM_NOMATCH)
         ELSE class_matched(class_regex(expand_posix_classes(content, flags),
                                        FALSE),
                            ch, icase)
    ELSE class_matched(class_regex(expand_posix_classes(content, flags),
                                   negated),
                       ch, icase)

RECURSIVE dowild(_, _, _)
RECURSIVE dowild_loop(_, _, _, _)
RECURSIVE dowild_star(_, _, _, _)

\* the '*' loop gone wrong: under WM_PATHNAME it steps over a '/'
dowild_star_crossing(pattern, p, text, flags) ==
    LET res == dowild(From(pattern, p), text, flags) IN
    IF res # WM_NOMATCH
       /\ (~HasFlag(flags, WM_PATHNAME) \/ res # WM_ABORT_TO_STARSTAR)
    THEN res
    ELSE IF text = <<>>
    THEN WM_ABORT_ALL
    ELSE dowild_star(pattern, p, Tail(text), flags)

\* the '*' loop gone wrong: behind a run of two or more stars it steps over
\* a '/' under WM_PATHNAME
dowild_star_doubled(pattern, p, text, flags) ==
    LET res == dowild(From(pattern, p), text, flags) IN
    IF res # WM_NOMATCH
       /\ (~HasFlag(flags, WM_PATHNAME) \/ res # WM_ABORT_TO_STARSTAR)
    THEN res
    ELSE IF text = <<>>
    THEN WM_ABORT_ALL
    ELSE IF /\ HasFlag(flags, WM_PATHNAME)
            /\ text[1] = "/"
            /\ ~(p >= 2 /\ pattern[p - 1] = "*")
    THEN WM_ABORT_TO_STARSTAR
    ELSE dowild_star(pattern, p, Tail(text), flags)

\* the "while True" loop of the '*' branch; p is the index after the stars
dowild_star(pattern, p, text, flags) ==
    LET res == dowild(From(pattern, p), text, flags) IN
    IF res # WM_NOMATCH
       /\ (~HasFlag(flags, WM_PATHNAME) \/ res # WM_ABORT_TO_STARSTAR)
    THEN res
    ELSE IF text = <<>>
    THEN WM_ABORT_ALL
    ELSE IF HasFlag(flags, WM_PATHNAME) /\ text[1] = "/"
    THEN WM_ABORT_TO_STARSTAR
    ELSE dowild_star(pattern, p, Tail(text), flags)

\* the escape branch gone wrong: an escaped '?' still stands for any
\* character
escape_mismatch_wild(literal, text) ==
    text = <<>> \/ (literal # "?" /\ text[1] # literal)

\* the escape branch: "if not text or text[0] != literal"
escape_mismatch(literal, text) == text = <<>> \/ text[1] # literal

\* the end of the bracket branch: "if not matched: return WM_NOMATCH", and
\* the loop goes on behind the ']' at index q
dowild_bracket(pattern, q, text, flags, matched) ==
    IF matched = WM_MATCH
    THEN dowild_loop(pattern, q + 1, Tail(text), flags)
    ELSE matched

\* one round of the loop, on the pattern character p_ch (folded under
\* WM_CASEFOLD)
dowild_char(pattern, p, text, flags, p_ch) ==
    LET raw_ch == pattern[p + 1]
        t_ch   == IF text = <<>> THEN ""
                  ELSE IF HasFlag(flags, WM_CASEFOLD) THEN Lower(text[1])
                  ELSE text[1]
    IN
    IF text = <<>> /\ raw_ch # "*"
    THEN WM_ABORT_ALL
    ELSE IF p_ch = "\\"
    THEN IF p + 1 >= Len(pattern)
         THEN WM_NOMATCH
         ELSE IF escape_mismatch(pattern[p + 2], text)
         THEN WM_NOMATCH
         ELSE dowild_loop(pattern, p + 2, Tail(text), flags)
    ELSE IF p_ch = "?"
    THEN IF HasFlag(flags, WM_PATHNAME) /\ text[1] = "/"
         THEN WM_NOMATCH
         ELSE dowild_loop(pattern, p + 1, Tail(text), flags)
    ELSE IF p_ch = "*"
    THEN LET q == SkipStars(pattern, p) IN
         IF q >= Len(pattern)
         THEN (IF HasFlag(flags, WM_PATHNAME) /\ Contains(text, "/")
               THEN WM_ABORT_TO_STARSTAR
               ELSE WM_MATCH)
         ELSE dowild_star(pattern, q, text, flags)
    ELSE IF p_ch = "["
    THEN LET q == BracketScan(pattern, p + 1) IN
         IF q >= Len(pattern) \/ pattern[q + 1] # "]"
         THEN WM_ABORT_ALL
         ELSE dowild_bracket(pattern, q, text, flags,
                             bracket_matched(Slice1(pattern, p + 2, q),
                                             text[1], flags))
    ELSE IF text = <<>> \/ t_ch # p_ch
    THEN WM_NOMATCH
    ELSE dowild_loop(pattern, p + 1, Tail(text), flags)

\* the "while p < len(pattern)" loop; p is the 0-based pattern index
dowild_loop(pattern, p, text, flags) ==
    IF p >= Len(pattern)
    THEN (IF text = <<>> THEN WM_MATCH ELSE WM_NOMATCH)
    ELSE dowild_char(pattern, p, text, flags,
                     IF HasFlag(flags, WM_CASEFOLD)
                     THEN Lower(pattern[p + 1])
                     ELSE pattern[p + 1])

dowild(pattern, text, flags) ==
    LET anchored == StartsWith(pattern, <<"/">>) IN
    IF anchored /\ ~StartsWith(text, <<"/">>)
    THEN WM_NOMATCH
    ELSE dowild_loop(IF anchored THEN Tail(pattern) ELSE pattern, 0,
                     IF anchored THEN Tail(text) ELSE text, flags)

\* wildmatch() gone wrong: the code of dowild is handed on as it is
wildmatch_raw(pattern, text, flags) == dowild(pattern, text, flags)

wildmatch(pattern, text, flags) ==
    IF dowild(pattern, text, flags) = WM_MATCH THEN WM_MATCH ELSE WM_NOMATCH

----------------------------------------------------------------------------
(* runex/ignore_logic.py: GitIgnorePattern                                 *)

\* pattern.split('/') without the empty components
RECURSIVE SplitFrom(_, _, _)
SplitFrom(s, i, cur) ==
    IF i > Len(s)
    THEN (IF cur = <<>> THEN <<>> ELSE <<cur>>)
    ELSE IF s[i] = "/"
    THEN (IF cur = <<>> THEN <<>> ELSE <<cur>>) \o SplitFrom(s, i + 1, <<>>)
    ELSE SplitFrom(s, i + 1, Append(cur, s[i]))

Components(pattern) == SplitFrom(pattern, 1, <<>>)

\* pattern.rstrip('/')
RECURSIVE RStripSlash(_)
RStripSlash(s) ==
    IF s # <<>> /\ s[Len(s)] = "/"
    THEN RStripSlash(SubSeq(s, 1, Len(s) - 1))
    ELSE s

\* basename() gone wrong: the whole path is taken for the base name
basename_whole(path) == path

\* os.path.basename(path)
RECURSIVE basename(_)
basename(path) ==
    IF path = <<>> \/ path[Len(path)] = "/"
    THEN <<>>
    ELSE Append(basename(SubSeq(path, 1, Len(path) - 1)), path[Len(path)])

\* translate_component: the index of the ']' that ends the bracket
\* expression, or len(component) when there is none
RECURSIVE BracketEnd(_, _)
BracketEnd(component, j) ==
    IF j < Len(component) /\ component[j + 1] # "]"
    THEN BracketEnd(component, j + 1)
    ELSE j

\* GitIgnorePattern.translate_component: the regex text of the component
\* from the 0-based index i on
RECURSIVE translate_component(_, _)
translate_component(component, i) ==
    IF i >= Len(component)
    THEN <<>>
    ELSE
    LET c == component[i + 1] IN
    IF c = "\\"
    THEN IF i + 1 < Len(component)
         THEN re_escape(component[i + 2]) \o translate_component(component, i + 2)
         ELSE re_escape(c) \o translate_component(component, i + 1)
    ELSE IF c = "*"
    THEN <<"[", "^", "/", "]", "*">> \o translate_component(component, i + 1)
    ELSE IF c = "?"
    THEN <<"[", "^", "/", "]">> \o translate_component(component, i + 1)
    ELSE IF c = "["
    THEN LET negate == i + 1 < Len(component)
                       /\ component[i + 2] \in {"!", "^"}
             j == BracketEnd(component, IF negate THEN i + 2 ELSE i + 1)
             content == SubSeq(component, i + 2, j)
         IN IF j < Len(component)
            THEN <<"[">> \o (IF negate THEN <<"^">> \o Tail(content)
                             ELSE content)
                 \o <<"]">> \o translate_component(component, j + 1)
            ELSE re_escape(c) \o translate_component(component, i + 1)
    ELSE re_escape(c) \o translate_component(component, i + 1)

\* the loop gone wrong: "**" is translated like any other component
RECURSIVE compile_components_plain(_, _, _)
compile_components_plain(components, n, first) ==
    IF n > Len(components)
    THEN <<>>
    ELSE (IF first THEN <<>> ELSE <<"/">>)
         \o translate_component(components[n], 0)
         \o compile_components_plain(components, n + 1, FALSE)

\* the "for comp in components" loop of compile_regex
RECURSIVE compile_components(_, _, _)
compile_components(components, n, first) ==
    IF n > Len(components)
    THEN <<>>
    ELSE IF components[n] = <<"*", "*">>
    THEN <<".", "*">> \o compile_components(components, n + 1, FALSE)
    ELSE (IF first THEN <<>> ELSE <<"/">>)
         \o translate_component(components[n], 0)
         \o compile_components(components, n + 1, FALSE)

\* the regex text "^(?:.*/)?" and the regex text "(?:/.*)?$"
RegexAnyDir   == <<"^", "(", "?", ":", ".", "*", "/", ")", "?">>
RegexAnyBelow == <<"(", "?", ":", "/", ".", "*", ")", "?", "$">>

\* regex_str gone wrong: every pattern is tied to the top of its scope
\* directory
regex_str_rooted(pattern, dir_only) ==
    <<"^", "/">>
      \o compile_components(Components(pattern), 1, TRUE)
      \o (IF dir_only THEN <<"$">> ELSE RegexAnyBelow)

\* the text compile_regex builds in regex_str
regex_str(pattern, dir_only) ==
    (IF StartsWith(pattern, <<"/">>) THEN <<"^", "/">> ELSE RegexAnyDir)
      \o compile_components(Components(pattern), 1, TRUE)
      \o (IF dir_only THEN <<"$">> ELSE RegexAnyBelow)

\* compile_regex gone wrong: a leading '/' does not anchor
compile_regex_unanchored(pattern, dir_only) ==
    re_compile(RegexAnyDir
               \o compile_components(Components(pattern), 1, TRUE)
               \o (IF dir_only THEN <<"$">> ELSE RegexAnyBelow))

\* GitIgnorePattern.compile_regex: the value left in self.regex, ok false
\* for None
compile_regex(pattern, dir_only) == re_compile(regex_str(pattern, dir_only))

\* GitIgnorePattern.__init__
GitIgnorePattern(pattern, source_dir, cf) ==
    LET negation == StartsWith(pattern, <<"!">>)
        p1       == IF negation THEN Tail(pattern) ELSE pattern
        dir_only == p1 # <<>> /\ p1[Len(p1)] = "/"
        p2       == IF dir_only THEN RStripSlash(p1) ELSE p1
        p3       == IF cf THEN LowerStr(p2) ELSE p2
    IN [original    |-> pattern,
        source_dir  |-> source_dir,
        casefold    |-> cf,
        negation    |-> negation,
        dir_only    |-> dir_only,
        raw_pattern |-> p3,
        regex       |-> compile_regex(p3, dir_only)]

\* hits() gone wrong: the directory-only test is missing
dir_only_ignored(self, is_dir) == FALSE

\* hits(): "if self.dir_only and not is_dir: return False"
dir_only_mismatch(self, is_dir) == self.dir_only /\ ~is_dir

\* hits(): the branch of a pattern without '/', tried on the base name
hits_basename(self, path) ==
    LET flags == WM_UNICODE + WM_PATHNAME
                 + (IF self.casefold THEN WM_CASEFOLD ELSE 0)
        base  == IF self.casefold
                 THEN LowerStr(basename(path))
                 ELSE basename(path)
    IN wildmatch(self.raw_pattern, base, flags) = WM_MATCH

\* hits() gone wrong: the regex of a path rule was compiled without
\* re.IGNORECASE
hits_path_cased(self, path) ==
    /\ self.regex.ok
    /\ ReMatch(self.regex.re, 1, <<"/">> \o path, 1, FALSE)

\* hits() gone wrong: a rule without a compiled regex hits every path
hits_path_unchecked(self, path) ==
    \/ ~self.regex.ok
    \/ ReMatch(self.regex.re, 1, <<"/">> \o path, 1, self.casefold)

\* hits(): the branch of a pattern with '/', tried on '/' + path
hits_path(self, path) ==
    /\ self.regex.ok
    /\ ReMatch(self.regex.re, 1, <<"/">> \o path, 1, self.casefold)

\* GitIgnorePattern.hits
hits(self, path, is_dir) ==
    IF dir_only_mismatch(self, is_dir)
    THEN FALSE
    ELSE IF ~Contains(self.raw_pattern, "/")
    THEN hits_basename(self, path)
    ELSE hits_path(self, path)

----------------------------------------------------------------------------
(* runex/ignore_logic.py: GitIgnoreScanner                                 *)

IsSpace(c) == c \in {" ", "\t", "\n"}

\* str.strip()
RECURSIVE LStrip(_)
LStrip(s) == IF s # <<>> /\ IsSpace(s[1]) THEN LStrip(Tail(s)) ELSE s

RECURSIVE RStrip(_)
RStrip(s) ==
    IF s # <<>> /\ IsSpace(s[Len(s)])
    THEN RStrip(SubSeq(s, 1, Len(s) - 1))
    ELSE s

Strip(s) == LStrip(RStrip(s))

\* re.sub(r'(?<!\\)#.*', '', line): cut at the first '#' that no backslash
\* precedes
StripComment(line) ==
    LET cuts == {i \in 1..Len(line) :
                    line[i] = "#" /\ (i = 1 \/ line[i - 1] # "\\")}
    IN IF cuts = {}
       THEN line
       ELSE SubSeq(line, 1, (CHOOSE i \in cuts : \A j \in cuts : i <= j) - 1)

\* the pattern text load_patterns makes of one line of a rule file
CleanLine(line) == Strip(StripComment(line))

\* the (rel_dir, line) pairs one rule file adds to "collected"
RECURSIVE CollectLines(_, _, _)
CollectLines(rel_dir, lines, n) ==
    IF n > Len(lines)
    THEN <<>>
    ELSE (IF CleanLine(lines[n]) # <<>>
          THEN <<[rel_dir |-> rel_dir, line |-> CleanLine(lines[n])]>>
          ELSE <<>>)
         \o CollectLines(rel_dir, lines, n + 1)

\* "collected" after os.walk visited the directories in the order walk
RECURSIVE Collect(_, _, _)
Collect(files, walk, n) ==
    IF n > Len(walk)
    THEN <<>>
    ELSE CollectLines(walk[n], files[walk[n]], 1) \o Collect(files, walk, n + 1)

\* the sort key: len(x[0].split('/')) if x[0] else 0
Depth(rel_dir) ==
    IF rel_dir = <<>>
    THEN 0
    ELSE Cardinality({i \in 1..Len(rel_dir) : rel_dir[i] = "/"}) + 1

\* the sort gone wrong: descending depth (reverse=True)
RECURSIVE InsertByDepth_descending(_, _)
InsertByDepth_descending(sorted, x) ==
    IF sorted = <<>>
    THEN <<x>>
    ELSE IF Depth(sorted[Len(sorted)].rel_dir) >= Depth(x.rel_dir)
    THEN Append(sorted, x)
    ELSE Append(InsertByDepth_descending(SubSeq(sorted, 1, Len(sorted) - 1), x),
                sorted[Len(sorted)])

\* the sort gone wrong: not stable, entries of equal depth change places
RECURSIVE InsertByDepth_unstable(_, _)
InsertByDepth_unstable(sorted, x) ==
    IF sorted = <<>>
    THEN <<x>>
    ELSE IF Depth(sorted[Len(sorted)].rel_dir) < Depth(x.rel_dir)
    THEN Append(sorted, x)
    ELSE Append(InsertByDepth_unstable(SubSeq(sorted, 1, Len(sorted) - 1), x),
                sorted[Len(sorted)])

\* list.sort(key=...) is stable: an entry goes behind every entry whose key
\* is not larger
RECURSIVE InsertByDepth(_, _)
InsertByDepth(sorted, x) ==
    IF sorted = <<>>
    THEN <<x>>
    ELSE IF Depth(sorted[Len(sorted)].rel_dir) <= Depth(x.rel_dir)
    THEN Append(sorted, x)
    ELSE Append(InsertByDepth(SubSeq(sorted, 1, Len(sorted) - 1), x),
                sorted[Len(sorted)])

RECURSIVE SortByDepth(_, _)
SortByDepth(collected, n) ==
    IF n = 0
    THEN <<>>
    ELSE InsertByDepth(SortByDepth(collected, n - 1), collected[n])

\* GitIgnoreScanner.load_patterns: the value left in self.patterns
load_patterns(files, walk, cf) ==
    LET collected == Collect(files, walk, 1)
        sorted    == SortByDepth(collected, Len(collected))
    IN [n \in 1..Len(sorted) |->
           GitIgnorePattern(sorted[n].line, sorted[n].rel_dir, cf)]

\* path.replace(os.sep, '/').replace('\\', '/')
Normalize(path) ==
    [i \in 1..Len(path) |-> IF path[i] = "\\" THEN "/" ELSE path[i]]

\* the scope test gone wrong: a rule is passed over for the path that is
\* its own scope directory
MatchPath_skipself(pattern, normalized) ==
    IF pattern.source_dir # <<>>
    THEN LET dir    == Normalize(pattern.source_dir)
             prefix == Append(dir, "/")
         IN IF StartsWith(normalized, prefix)
            THEN <<From(normalized, Len(prefix))>>
            ELSE <<>>
    ELSE <<normalized>>

\* the scope test gone wrong: the prefix is compared without its '/'
MatchPath_noslash(pattern, normalized) ==
    IF pattern.source_dir # <<>>
    THEN LET dir    == Normalize(pattern.source_dir)
             prefix == Append(dir, "/")
         IN IF StartsWith(normalized, dir) /\ normalized # dir
            THEN <<From(normalized, Len(prefix))>>
            ELSE IF normalized = dir
            THEN << <<>> >>
            ELSE <<>>
    ELSE <<normalized>>

\* the path one rule is tried on: <<match_path>>, or <<>> when the loop of
\* should_ignore skips the rule ("continue")
MatchPath(pattern, normalized) ==
    IF pattern.source_dir # <<>>
    THEN LET dir    == Normalize(pattern.source_dir)
             prefix == Append(dir, "/")
         IN IF StartsWith(normalized, prefix)
            THEN <<From(normalized, Len(prefix))>>
            ELSE IF normalized = dir
            THEN << <<>> >>
            ELSE <<>>
    ELSE <<normalized>>

\* the loop gone wrong: the first rule that hits decides
RECURSIVE should_ignore_loop_first(_, _, _, _, _, _)
should_ignore_loop_first(pats, n, normalized, is_dir, result, trace) ==
    IF n > Len(pats)
    THEN [result |-> result, trace |-> trace]
    ELSE
    LET match_path == MatchPath(pats[n], normalized) IN
    IF match_path = <<>>
    THEN should_ignore_loop_first(pats, n + 1, normalized, is_dir, result,
                                  Append(trace, "skip"))
    ELSE IF hits(pats[n], match_path[1], is_dir)
    THEN should_ignore_loop_first(pats, n + 1, normalized, is_dir,
                                  IF result = <<>> THEN <<~pats[n].negation>>
                                  ELSE result,
                                  Append(trace, "hit"))
    ELSE should_ignore_loop_first(pats, n + 1, normalized, is_dir, result,
                                  Append(trace, "miss"))

\* the "for pattern in self.patterns" loop of should_ignore.  result is <<>>
\* for None; trace records what each iteration did with its rule.
RECURSIVE should_ignore_loop(_, _, _, _, _, _)
should_ignore_loop(pats, n, normalized, is_dir, result, trace) ==
    IF n > Len(pats)
    THEN [result |-> result, trace |-> trace]
    ELSE
    LET match_path == MatchPath(pats[n], normalized) IN
    IF match_path = <<>>
    THEN should_ignore_loop(pats, n + 1, normalized, is_dir, result,
                            Append(trace, "skip"))
    ELSE IF hits(pats[n], match_path[1], is_dir)
    THEN should_ignore_loop(pats, n + 1, normalized, is_dir,
                            <<~pats[n].negation>>, Append(trace, "hit"))
    ELSE should_ignore_loop(pats, n + 1, normalized, is_dir, result,
                            Append(trace, "miss"))

\* "return result if result is not None else False", for the outcome r of
\* the loop
Returned(r) == IF r.result # <<>> THEN r.result[1] ELSE FALSE

\* GitIgnoreScanner.should_ignore
should_ignore(pats, path, is_dir) ==
    Returned(should_ignore_loop(pats, 1, Normalize(path), is_dir, <<>>, <<>>))

----------------------------------------------------------------------------
(* The inputs of the model.                                                *)

\* all strings over alphabet of length at most n
StringsUpTo(alphabet, n) == UNION {[1..k -> alphabet] : k \in 0..n}

\* test_pathname_flag: "s/*.c" on "s/m.c" and on "s/d/m.c"
Pattern_s_any_c == <<"s", "/", "*", ".", "c">>
Text_s_m_c      == <<"s", "/", "m", ".", "c">>
Text_s_d_m_c    == <<"s", "/", "d", "/", "m", ".", "c">>

\* "**/x" on "x", "a/x", "a/b/x" and "ax"
Pattern_starstar_x == <<"*", "*", "/", "x">>
Text_x     == <<"x">>
Text_a_x   == <<"a", "/", "x">>
Text_a_b_x == <<"a", "/", "b", "/", "x">>
Text_ax    == <<"a", "x">>

\* wildmatch(): glob patterns of literals, '?' and '*'; texts; flag sets
WildPatterns ==
    StringsUpTo({"a", "A", "?", "*", "/"}, MaxPatLen)
      \cup {Pattern_s_any_c, Pattern_starstar_x}
WildTexts ==
    StringsUpTo({"a", "A", "b", "/"}, MaxTextLen)
      \cup {Text_s_m_c, Text_s_d_m_c, Text_x, Text_a_x, Text_a_b_x, Text_ax}
WildFlags    == {0, WM_CASEFOLD, WM_PATHNAME, WM_CASEFOLD + WM_PATHNAME}

\* every set of the flags CASEFOLD, PATHNAME and UNICODE
AllFlags == 0..(WM_CASEFOLD + WM_PATHNAME + WM_UNICODE)

\* members of a bracket expression: the literals a, _ and 1, the range a-z,
\* and the POSIX classes [:digit:], [:alpha:] and [:upper:]
Class_digit == <<"[", ":">> \o Name_digit \o <<":", "]">>
Class_alpha == <<"[", ":">> \o Name_alpha \o <<":", "]">>
Class_upper == <<"[", ":">> \o Name_upper \o <<":", "]">>

Members == {<<"a">>, <<"_">>, <<"1">>, <<"a", "-", "z">>,
            Class_digit, Class_alpha, Class_upper}

\* ''.join(parts)
RECURSIVE Concat(_)
Concat(parts) ==
    IF parts = <<>> THEN <<>> ELSE parts[1] \o Concat(Tail(parts))

\* the bodies of one to n members
BodiesUpTo(n) ==
    {Concat(ms) : ms \in UNION {[1..k -> Members] : k \in 1..n}}

\* the bracket expression of a body: "[B]", "[!B]" or "[^B]"
Bracket(neg, body) == <<"[">> \o neg \o body \o <<"]">>

BracketPatterns ==
    {Bracket(neg, body) :
        neg \in {<<>>, <<"!">>, <<"^">>}, body \in BodiesUpTo(MaxMembers)}

\* the single characters a bracket expression is tried on
BracketTexts ==
    {<<"a">>, <<"A">>, <<"1">>, <<"_">>, <<"/">>, <<"À">>, <<"ß">>}

\* characters behind a backslash, patterns "\X" and patterns of a, A and
\* backslash; texts of a, A and backslash, and X and XX
EscapedChars == {"*", "?", "[", "]", "#", " ", "\\", "a", "A"}

EscapePatterns ==
    {<<"\\", X>> : X \in EscapedChars}
      \cup StringsUpTo({"a", "A", "\\"}, MaxPatLen)

EscapeTexts ==
    StringsUpTo({"a", "A", "\\"}, MaxTextLen)
      \cup {<<X>> : X \in EscapedChars}
      \cup {<<X, X>> : X \in EscapedChars}

\* the directory tree under root_dir: "", "s", "s/d" and "o"
Dirs == {<<>>, <<"s">>, <<"s", "/", "d">>, <<"o">>}

\* d lies below the directory a
IsUnder(d, a) == d # a /\ (a = <<>> \/ StartsWith(d, Append(a, "/")))

\* os.walk(topdown=True) lists a directory before its subdirectories and
\* finishes a subtree before it goes on; the order of siblings is the
\* file system's
Walks ==
    {w \in [1..Cardinality(Dirs) -> Dirs] :
        /\ \A d \in Dirs : \E i \in 1..Len(w) : w[i] = d
        /\ \A i \in 1..Len(w) :
              {j \in 1..Len(w) : IsUnder(w[j], w[i])}
                = (i + 1)..(i + Cardinality({d \in Dirs : IsUnder(d, w[i])}))}

\* lines of rule files: "*.t", "!k.t", "!s/*.t", "k.t #c", "#c" and
\* "s/[z-a]", whose regular expression has a bad character range
Line_glob    == <<"*", ".", "t">>
Line_keep    == <<"!", "k", ".", "t">>
Line_keep_s  == <<"!", "s", "/", "*", ".", "t">>
Line_name    == <<"k", ".", "t", " ", "#", "c">>
Line_comment == <<"#", "c">>
Line_bad     == <<"s", "/", "[", "z", "-", "a", "]">>

CascadeLines == {Line_glob, Line_keep, Line_keep_s, Line_name, Line_comment}

\* the rule files that hold the lines of entries, a sequence of
\* <<directory, line>>, each line in the file of its directory
FilesFrom(entries) ==
    [d \in Dirs |->
        LET own == SelectSeq(entries, LAMBDA e : e[1] = d)
        IN [n \in 1..Len(own) |-> own[n][2]]]

\* rule files with lines of the set lines, at most n lines in all
RuleFiles(lines, n) ==
    {FilesFrom(entries) : entries \in StringsUpTo(Dirs \X lines, n)}

CascadeFiles == RuleFiles(CascadeLines, MaxRules)

\* rule files with a line whose regular expression does not compile, and
\* the paths tried on them
BrokenFiles == RuleFiles({Line_bad, Line_glob, Line_keep}, MaxRules)
BrokenPaths == {<<"a", ".", "t">>, <<"s", "/", "a", ".", "t">>,
                <<"s", "/", "k", ".", "t">>, <<"s", "/", "z">>}

\* the rule files and the paths of a scanner that is asked several times
CallFiles == RuleFiles({Line_glob, Line_keep}, MaxRules)
CallPaths == {<<"a", ".", "t">>, <<"k", ".", "t">>,
              <<"s", "/", "k", ".", "t">>}

\* queried paths: a.t k.t K.t s s/a.t s/k.t s/d s/d/k.t s/d/x/k.t o/a.t
\* o/k.t sx/a.t s/z
CascadePaths ==
    { <<"a", ".", "t">>, <<"k", ".", "t">>, <<"K", ".", "t">>,
      <<"s">>, <<"s", "/", "a", ".", "t">>, <<"s", "/", "k", ".", "t">>,
      <<"s", "/", "d">>, <<"s", "/", "d", "/", "k", ".", "t">>,
      <<"s", "/", "d", "/", "x", "/", "k", ".", "t">>,
      <<"o", "/", "a", ".", "t">>, <<"o", "/", "k", ".", "t">>,
      <<"s", "x", "/", "a", ".", "t">> }

\* single rules: "k.t", "/k.t", "/K.t", "/b/", "b/", "a/**/b", "**/b"
Rule_name       == <<"k", ".", "t">>
Rule_anchored   == <<"/", "k", ".", "t">>
Rule_anchoredUp == <<"/", "K", ".", "t">>
Rule_anchoredDir == <<"/", "b", "/">>
Rule_dir        == <<"b", "/">>
Rule_between    == <<"a", "/", "*", "*", "/", "b">>
Rule_leading    == <<"*", "*", "/", "b">>

RuleLines == {Rule_name, Rule_anchored, Rule_anchoredUp, Rule_anchoredDir,
              Rule_dir, Rule_between, Rule_leading}

\* one rule file, in directory d, with the one line
OneRuleFile(d, line) == [x \in Dirs |-> IF x = d THEN <<line>> ELSE <<>>]

SingleRuleFiles ==
    {OneRuleFile(d, line) : d \in {<<>>, <<"s">>}, line \in RuleLines}

\* s with its letters in either case, in every combination
RECURSIVE CaseVariants(_)
CaseVariants(s) ==
    IF s = <<>>
    THEN {<<>>}
    ELSE {<<c>> \o rest : c \in {Lower(s[1]), Upper(s[1])},
                          rest \in CaseVariants(Tail(s))}

\* rules with letters in upper case: "K.T", "S/*.T", "[K].t", "\K.t";
\* rules with a '[' that nothing closes: "[ab", "b/[a"
Rule_upper    == <<"K", ".", "T">>
Rule_mixed    == <<"S", "/", "*", ".", "T">>
Rule_class    == <<"[", "K", "]", ".", "t">>
Rule_escaped  == <<"\\", "K", ".", "t">>
Rule_open     == <<"[", "a", "b">>
Rule_openPath == <<"b", "/", "[", "a">>

\* lines with white space: "*.t   ", "\ f.t", "k\ " and "  "
Line_spaces   == <<"*", ".", "t", " ", " ", " ">>
Line_leading  == <<"\\", " ", "f", ".", "t">>
Line_trailing == <<"k", "\\", " ">>
Line_blank    == <<" ", " ">>

\* rule files with an escaped '#' or an escaped space: "\#n.t", "\ f.t"
Line_hash == <<"\\", "#", "n", ".", "t">>

EscapeFiles ==
    {OneRuleFile(d, line) : d \in {<<>>, <<"s">>},
                            line \in {Line_hash, Line_leading}}

\* paths tried on them: "#n.t", " f.t", n.t, f.t, "s/#n.t", "s/ f.t"
EscapePaths ==
    { <<"#", "n", ".", "t">>, <<" ", "f", ".", "t">>, <<"n", ".", "t">>,
      <<"f", ".", "t">>, <<"s", "/", "#", "n", ".", "t">>,
      <<"s", "/", " ", "f", ".", "t">> }

EdgeLines == {Rule_name, Rule_upper, Rule_mixed, Rule_class, Rule_escaped,
              Rule_open, Rule_openPath,
              Line_spaces, Line_leading, Line_trailing, Line_blank,
              Line_name, Line_comment}

EdgeFiles ==
    {OneRuleFile(d, line) : d \in {<<>>, <<"s">>}, line \in EdgeLines}

\* paths tried on these rules: k.t and s/k.t in every letter case, a.t,
\* " f.t", "k ", "[ab", "b/[a", "s/[ab" and "s/b/[a"
EdgePaths ==
    CaseVariants(<<"k", ".", "t">>)
      \cup CaseVariants(<<"s", "/", "k", ".", "t">>)
      \cup { <<"a", ".", "t">>, <<" ", "f", ".", "t">>, <<"k", " ">>,
             <<"[", "a", "b">>, <<"b", "/", "[", "a">>,
             <<"s", "/", "[", "a", "b">>, <<"s", "/", "b", "/", "[", "a">> }

\* names of files and directories: a, b, x, ax, k.t
Segments == {<<"a">>, <<"b">>, <<"x">>, <<"a", "x">>, <<"k", ".", "t">>}

\* '/'.join(segs)
RECURSIVE Join(_)
Join(segs) ==
    IF Len(segs) = 0 THEN <<>>
    ELSE IF Len(segs) = 1 THEN segs[1]
    ELSE segs[1] \o <<"/">> \o Join(Tail(segs))

\* the paths of one to n segments
PathsUpTo(n) == {Join(segs) : segs \in UNION {[1..k -> Segments] : k \in 1..n}}

\* paths tried on a single rule: in the root and in directory s
RulePaths ==
    PathsUpTo(MaxSegs)
      \cup {<<"s", "/">> \o p : p \in PathsUpTo(MaxSegs)}
      \cup {<<"s">>}

----------------------------------------------------------------------------
(* The state machine.                                                      *)

NoCall == [op |-> "none", path |-> <<>>, is_dir |-> FALSE,
           result |-> FALSE, trace |-> <<>>]

\* no wildmatch() call is under way
WildIdle ==
    /\ w_pc = "idle"
    /\ w_pattern = <<>>
    /\ w_text = <<>>
    /\ w_flags = 0
    /\ w_dowild = WM_NOMATCH
    /\ w_res = WM_NOMATCH

\* GitIgnoreScanner.__init__ over the rule files on disk
InitScanner(fileSets) ==
    /\ pc = "new"
    /\ casefold \in BOOLEAN
    /\ rulefiles \in fileSets
    /\ patterns = <<>>
    /\ call = NoCall
    /\ ncalls = 0
    /\ WildIdle

Init == InitScanner(CascadeFiles)

\* scanner.load_patterns()
LoadPatterns ==
    /\ pc = "new"
    /\ \E walk \in Walks :
          patterns' = load_patterns(rulefiles, walk, casefold)
    /\ pc' = "loaded"
    /\ UNCHANGED <<casefold, rulefiles, call, ncalls>>
    /\ UNCHANGED wild_vars

\* the record of a should_ignore() call whose loop ended as r
Answered(path, is_dir, r) ==
    [op |-> "should_ignore", path |-> path, is_dir |-> is_dir,
     result |-> Returned(r), trace |-> r.trace]

\* should_ignore() gone wrong: the call drops the last rule of
\* self.patterns
ShouldIgnore_forgetting(path, is_dir) ==
    /\ pc \in {"loaded", "called"}
    /\ call' = Answered(path, is_dir,
                        should_ignore_loop(patterns, 1, Normalize(path),
                                           is_dir, <<>>, <<>>))
    /\ pc' = "called"
    /\ ncalls' = ncalls + 1
    /\ patterns' = SubSeq(patterns, 1, Len(patterns) - 1)
    /\ UNCHANGED <<casefold, rulefiles>>
    /\ UNCHANGED wild_vars

\* scanner.should_ignore(path, is_dir), on a scanner that has loaded its
\* rules
ShouldIgnore(path, is_dir) ==
    /\ pc \in {"loaded", "called"}
    /\ call' = Answered(path, is_dir,
                        should_ignore_loop(patterns, 1, Normalize(path),
                                           is_dir, <<>>, <<>>))
    /\ pc' = "called"
    /\ ncalls' = ncalls + 1
    /\ UNCHANGED <<casefold, rulefiles, patterns>>
    /\ UNCHANGED wild_vars

Next ==
    \/ LoadPatterns
    \/ /\ pc = "loaded"
       /\ \E path \in CascadePaths, is_dir \in BOOLEAN :
             ShouldIgnore(path, is_dir)

Spec == Init /\ [][Next]_vars

\* a scanner over a tree with one rule in one rule file
InitRule == InitScanner(SingleRuleFiles)

NextRule ==
    \/ LoadPatterns
    \/ /\ pc = "loaded"
       /\ \E path \in RulePaths, is_dir \in BOOLEAN :
             ShouldIgnore(path, is_dir)

SpecRule == InitRule /\ [][NextRule]_vars

\* one rule file with one line, tried on the paths of EdgePaths
InitLines == InitScanner(EdgeFiles)

NextLines ==
    \/ LoadPatterns
    \/ /\ pc = "loaded"
       /\ \E path \in EdgePaths, is_dir \in BOOLEAN :
             ShouldIgnore(path, is_dir)

SpecLines == InitLines /\ [][NextLines]_vars

\* a scanner whose rule files hold a line that does not compile
InitBroken == InitScanner(BrokenFiles)

NextBroken ==
    \/ LoadPatterns
    \/ /\ pc = "loaded"
       /\ \E path \in BrokenPaths, is_dir \in BOOLEAN :
             ShouldIgnore(path, is_dir)

SpecBroken == InitBroken /\ [][NextBroken]_vars

\* a scanner that is asked up to MaxCalls times
InitCalls == InitScanner(CallFiles)

NextCalls ==
    \/ LoadPatterns
    \/ /\ pc \in {"loaded", "called"}
       /\ ncalls < MaxCalls
       /\ \E path \in CallPaths, is_dir \in BOOLEAN :
             ShouldIgnore(path, is_dir)

SpecCalls == InitCalls /\ [][NextCalls]_vars

\* the caller of wildmatch() holds its arguments
InitWild ==
    /\ pc = "new"
    /\ casefold = FALSE
    /\ rulefiles = [d \in Dirs |-> <<>>]
    /\ patterns = <<>>
    /\ call = NoCall
    /\ ncalls = 0
    /\ w_pc = "idle"
    /\ w_pattern \in WildPatterns
    /\ w_text \in WildTexts
    /\ w_flags \in WildFlags
    /\ w_dowild = WM_NOMATCH
    /\ w_res = WM_NOMATCH

\* wildmatch(pattern, text, flags)
Wildmatch ==
    /\ w_pc = "idle"
    /\ w_dowild' = dowild(w_pattern, w_text, w_flags)
    /\ w_res' = wildmatch(w_pattern, w_text, w_flags)
    /\ w_pc' = "done"
    /\ UNCHANGED <<w_pattern, w_text, w_flags>>
    /\ UNCHANGED scan_vars

NextWild == Wildmatch

SpecWild == InitWild /\ [][NextWild]_vars

\* backslash escapes: a caller of wildmatch() with a pattern and a text, or
\* a scanner over a rule file with an escaped character
InitEscape ==
    \/ /\ pc = "new"
       /\ casefold = FALSE
       /\ rulefiles = [d \in Dirs |-> <<>>]
       /\ patterns = <<>>
       /\ call = NoCall
       /\ ncalls = 0
       /\ w_pc = "idle"
       /\ w_pattern \in EscapePatterns
       /\ w_text \in EscapeTexts
       /\ w_flags \in WildFlags
       /\ w_dowild = WM_NOMATCH
       /\ w_res = WM_NOMATCH
    \/ InitScanner(EscapeFiles)

NextEscape ==
    \/ Wildmatch
    \/ LoadPatterns
    \/ /\ pc = "loaded"
       /\ \E path \in EscapePaths, is_dir \in BOOLEAN :
             ShouldIgnore(path, is_dir)

SpecEscape == InitEscape /\ [][NextEscape]_vars

\* the caller of wildmatch() holds a bracket expression and one character
InitBracket ==
    /\ pc = "new"
    /\ casefold = FALSE
    /\ rulefiles = [d \in Dirs |-> <<>>]
    /\ patterns = <<>>
    /\ call = NoCall
    /\ ncalls = 0
    /\ w_pc = "idle"
    /\ w_pattern \in BracketPatterns
    /\ w_text \in BracketTexts
    /\ w_flags \in AllFlags
    /\ w_dowild = WM_NOMATCH
    /\ w_res = WM_NOMATCH

SpecBracket == InitBracket /\ [][NextWild]_vars

----------------------------------------------------------------------------
(* Properties of the rule cascade (specification Spec).                    *)

Max(S) == CHOOSE x \in S : \A y \in S : y <= x

\* a should_ignore() call has returned
Called == call.op = "should_ignore"

\* the rule files of a tree whose only rule files are root and sub
FilesOf(root, sub_dir, sub) ==
    [d \in Dirs |-> IF d = <<>> THEN root
                    ELSE IF d = sub_dir THEN sub
                    ELSE <<>>]

Path_a_t     == <<"a", ".", "t">>
Path_k_t     == <<"k", ".", "t">>
Path_s_a_t   == <<"s", "/", "a", ".", "t">>
Path_s_k_t   == <<"s", "/", "k", ".", "t">>
Path_o_a_t   == <<"o", "/", "a", ".", "t">>
Path_sx_a_t  == <<"s", "x", "/", "a", ".", "t">>
Path_s_d_x_k == <<"s", "/", "d", "/", "x", "/", "k", ".", "t">>

\* path lies in the scope directory S or is S itself
InScope(path, S) ==
    S = <<>> \/ path = S \/ StartsWith(path, Append(S, "/"))

\* path as seen from the scope directory S
RelativeTo(path, S) ==
    IF S = <<>> THEN path
    ELSE IF path = S THEN <<>>
    ELSE From(path, Len(S) + 1)

\* the rules that are in scope for the queried path and hit it
HitRules ==
    {i \in DOMAIN patterns :
        /\ InScope(call.path, patterns[i].source_dir)
        /\ hits(patterns[i], RelativeTo(call.path, patterns[i].source_dir),
                call.is_dir)}

\* C1: should_ignore returns "not negation" of the last rule, in the order
\* of self.patterns, that is in scope for the path and hits it, and False
\* when no rule hits; with the rules "*.t", "!s/*.t" at the root, a.t is
\* ignored and s/a.t is not.
C1_LastMatchWins ==
    Called =>
      /\ call.result = (IF HitRules = {} THEN FALSE
                        ELSE ~patterns[Max(HitRules)].negation)
      /\ rulefiles = FilesOf(<<Line_glob, Line_keep_s>>, <<"s">>, <<>>) =>
           /\ call.path = Path_a_t => call.result
           /\ call.path = Path_s_a_t => ~call.result

\* C1 witness: "*.t" and then "!s/*.t" both hit s/a.t; it is not ignored
C1_Witness ==
    /\ Called
    /\ rulefiles = FilesOf(<<Line_glob, Line_keep_s>>, <<"s">>, <<>>)
    /\ call.path = Path_s_a_t
    /\ HitRules = {1, 2}
    /\ ~call.result

\* the hit rules of the deepest scope directory
DeepestHitRules ==
    {i \in HitRules :
        \A j \in HitRules :
            Depth(patterns[j].source_dir) <= Depth(patterns[i].source_dir)}

\* C2: after load_patterns the rules are in ascending order of the depth of
\* their scope directory, and when rules of several scopes hit a path a rule
\* of the deepest scope decides; root "*.t" with s/"!k.t" leaves s/k.t not
\* ignored, root "!k.t" with s/"*.t" leaves s/k.t ignored.
C2_DeeperRuleDecides ==
    /\ pc # "new" =>
         \A i, j \in DOMAIN patterns :
            i < j => Depth(patterns[i].source_dir)
                       <= Depth(patterns[j].source_dir)
    /\ Called /\ HitRules # {} =>
         call.result = ~patterns[Max(DeepestHitRules)].negation
    /\ Called /\ call.path = Path_s_k_t =>
         /\ rulefiles = FilesOf(<<Line_glob>>, <<"s">>, <<Line_keep>>)
              => ~call.result
         /\ rulefiles = FilesOf(<<Line_keep>>, <<"s">>, <<Line_glob>>)
              => call.result

\* C2 witness: the negated root rule and the rule of s both hit s/k.t, and
\* the rule of s decides
C2_Witness ==
    /\ Called
    /\ rulefiles = FilesOf(<<Line_keep>>, <<"s">>, <<Line_glob>>)
    /\ call.path = Path_s_k_t
    /\ HitRules = {1, 2}
    /\ call.result

\* the pattern texts of the rules of scope directory d, in rule order
OriginalsOf(d) ==
    LET own == SelectSeq(patterns, LAMBDA r : r.source_dir = d)
    IN [n \in 1..Len(own) |-> own[n].original]

\* the pattern texts the lines of the rule file of d give, in line order
TextsOf(d) ==
    LET own == CollectLines(d, rulefiles[d], 1)
    IN [n \in 1..Len(own) |-> own[n].line]

\* C3: the rules of one rule file keep their line order through
\* load_patterns, so a later line overrides an earlier one: "*.t", "!k.t"
\* gives a.t ignored and k.t not ignored; "!k.t", "*.t" gives k.t ignored.
C3_FileOrderKept ==
    /\ pc # "new" => \A d \in Dirs : OriginalsOf(d) = TextsOf(d)
    /\ Called /\ rulefiles = FilesOf(<<Line_glob, Line_keep>>, <<"s">>, <<>>) =>
         /\ call.path = Path_a_t => call.result
         /\ call.path = Path_k_t => ~call.result
    /\ Called /\ rulefiles = FilesOf(<<Line_keep, Line_glob>>, <<"s">>, <<>>) =>
         /\ call.path = Path_k_t => call.result

\* C3 witness: with the lines "!k.t", "*.t" the later line decides on k.t
C3_Witness ==
    /\ Called
    /\ rulefiles = FilesOf(<<Line_keep, Line_glob>>, <<"s">>, <<>>)
    /\ OriginalsOf(<<>>) = <<Line_keep, Line_glob>>
    /\ call.path = Path_k_t
    /\ call.result

\* pats without its n-th rule
RemoveAt(pats, n) ==
    SubSeq(pats, 1, n - 1) \o SubSeq(pats, n + 1, Len(pats))

\* rule i has a scope directory and the queried path is outside of it
OutOfScope(i) ==
    /\ patterns[i].source_dir # <<>>
    /\ call.path # patterns[i].source_dir
    /\ ~StartsWith(call.path, Append(patterns[i].source_dir, "/"))

\* C4: a rule with a scope directory S does not change the result for a path
\* that is not S and does not begin with S/: without the rule the result is
\* the same; "*.t" of scope s leaves o/a.t and sx/a.t not ignored and
\* ignores s/a.t.
C4_ScopeIsolation ==
    Called =>
      /\ \A i \in DOMAIN patterns :
            OutOfScope(i) =>
              should_ignore(RemoveAt(patterns, i), call.path, call.is_dir)
                = call.result
      /\ rulefiles = FilesOf(<<>>, <<"s">>, <<Line_glob>>) =>
           /\ call.path = Path_o_a_t => ~call.result
           /\ call.path = Path_sx_a_t => ~call.result
           /\ call.path = Path_s_a_t => call.result

\* C4 witness: "*.t" of scope s was passed over for sx/a.t
C4_Witness ==
    /\ Called
    /\ rulefiles = FilesOf(<<>>, <<"s">>, <<Line_glob>>)
    /\ call.path = Path_sx_a_t
    /\ OutOfScope(1)
    /\ call.trace = <<"skip">>
    /\ ~call.result

\* the part of path behind its last '/'
LastSegment(path) ==
    LET slashes == {i \in 1..Len(path) : path[i] = "/"}
    IN IF slashes = {} THEN path ELSE From(path, Max(slashes))

\* the text of a rule without its '!'
RuleText(r) == IF r.negation THEN Tail(r.original) ELSE r.original

\* the flags hits() gives the wildcard engine
BasenameFlags ==
    WM_UNICODE + WM_PATHNAME + (IF casefold THEN WM_CASEFOLD ELSE 0)

----------------------------------------------------------------------------
(* Properties of single rules (specification SpecRule).                    *)

\* the segments of the queried path as seen from the scope of rule i
RelSegments(i) ==
    Components(RelativeTo(call.path, patterns[i].source_dir))

\* the rule text is '/' and one literal name, or that and a final '/'
IsAnchoredName(r) ==
    LET text == RuleText(r)
        name == RStripSlash(Tail(text))
    IN /\ StartsWith(text, <<"/">>)
       /\ name # <<>>
       /\ \A n \in 1..Len(name) : name[n] \notin {"/", "*", "?", "[", "\\"}

\* the name X of a rule "/X" or "/X/", written as the rule compares it
AnchoredName(r) == Components(r.raw_pattern)[1]

\* the name d is the name X of the rule, as the rule compares names
SameName(r, d) ==
    IF r.casefold THEN LowerStr(d) = LowerStr(AnchoredName(r))
    ELSE d = AnchoredName(r)

Path_b       == <<"b">>
Path_x_b     == <<"x", "/", "b">>
Path_b_k_t   == <<"b", "/", "k", ".", "t">>
Path_x_k_t   == <<"x", "/", "k", ".", "t">>
Path_k_t_k_t == <<"k", ".", "t", "/", "k", ".", "t">>
Path_a_b     == <<"a", "/", "b">>
Path_ax_b    == <<"a", "x", "/", "b">>
Path_a_x_x_b == <<"a", "/", "x", "/", "x", "/", "b">>
Path_a_x_x_k == <<"a", "/", "x", "/", "x", "/", "k", ".", "t">>

\* "/k.t" at the root ignores k.t and not x/k.t; "/b/" ignores the
\* directory b and not x/b
AnchoredExamples ==
    /\ rulefiles = OneRuleFile(<<>>, Rule_anchored) =>
         /\ call.path = Path_k_t => call.result
         /\ call.path = Path_x_k_t => ~call.result
    /\ rulefiles = OneRuleFile(<<>>, Rule_anchoredDir) =>
         /\ call.path = Path_b /\ call.is_dir => call.result
         /\ call.path = Path_x_b => ~call.result

\* a rule "/X" of scope S hits S/X
AnchoredHitsTop(i) ==
    /\ InScope(call.path, patterns[i].source_dir)
    /\ Len(RelSegments(i)) = 1
    /\ SameName(patterns[i], RelSegments(i)[1])
    /\ ~patterns[i].dir_only \/ call.is_dir
    => call.trace[i] = "hit"

\* C6 as claimed: a rule "/X" of scope S (X one literal name) hits S/X and
\* never S/d/X, for any directory d.
C6_AnchoredAnyDirectory ==
    Called =>
      /\ AnchoredExamples
      /\ \A i \in DOMAIN patterns :
            IsAnchoredName(patterns[i]) =>
              /\ AnchoredHitsTop(i)
              /\ /\ InScope(call.path, patterns[i].source_dir)
                 /\ Len(RelSegments(i)) = 2
                 /\ SameName(patterns[i], RelSegments(i)[2])
                 => call.trace[i] # "hit"

\* C6: a rule "/X" of scope S (X one literal name) hits S/X and never S/d/X
\* for a directory d with another name than X; S/X/X lies beneath S/X and is
\* hit.  "/k.t" at the root ignores k.t and not x/k.t; "/b/" ignores the
\* directory b and not x/b.
C6_Anchored ==
    Called =>
      /\ AnchoredExamples
      /\ \A i \in DOMAIN patterns :
            IsAnchoredName(patterns[i]) =>
              /\ AnchoredHitsTop(i)
              /\ /\ InScope(call.path, patterns[i].source_dir)
                 /\ Len(RelSegments(i)) = 2
                 /\ SameName(patterns[i], RelSegments(i)[2])
                 /\ ~SameName(patterns[i], RelSegments(i)[1])
                 => call.trace[i] # "hit"

\* C6 witness: "/k.t" of scope s was tried on s/x/k.t and missed it
C6_Witness ==
    /\ Called
    /\ rulefiles = OneRuleFile(<<"s">>, Rule_anchored)
    /\ call.path = <<"s", "/">> \o Path_x_k_t
    /\ call.trace = <<"miss">>
    /\ ~call.result

\* the rule text ends with '/'
EndsWithSlash(r) == r.original # <<>> /\ r.original[Len(r.original)] = "/"

\* C7: a rule whose text ends with '/' hits no query with is_dir = False;
\* "b/" hits ("b", True) and neither ("b", False) nor ("b/k.t", True).
C7_DirectoryOnly ==
    Called =>
      /\ ~call.is_dir =>
           \A i \in DOMAIN patterns :
              EndsWithSlash(patterns[i]) => call.trace[i] # "hit"
      /\ rulefiles = OneRuleFile(<<>>, Rule_dir) =>
           /\ call.path = Path_b => call.result = call.is_dir
           /\ call.path = Path_b_k_t => ~call.result

\* C7 witness: "b/" was tried on the file b and missed it
C7_Witness ==
    /\ Called
    /\ rulefiles = OneRuleFile(<<>>, Rule_dir)
    /\ call.path = Path_b
    /\ ~call.is_dir
    /\ call.trace = <<"miss">>

\* C8: a "**" component stands for zero or more directories: "a/**/b" hits
\* a/b, a/x/b, a/x/x/b and every a/.../b, but not a/x/x/k.t; "**/b" hits b,
\* x/b, x/x/b and every .../b.
C8_DoubleStar ==
    Called =>
      \A i \in DOMAIN patterns :
         LET segs == RelSegments(i) IN
         InScope(call.path, patterns[i].source_dir) =>
           /\ /\ patterns[i].original = Rule_between
              /\ Len(segs) >= 2
              /\ segs[1] = <<"a">>
              /\ segs[Len(segs)] = <<"b">>
              => call.trace[i] = "hit"
           /\ /\ patterns[i].original = Rule_between
              /\ RelativeTo(call.path, patterns[i].source_dir) = Path_a_x_x_k
              => call.trace[i] = "miss"
           /\ /\ patterns[i].original = Rule_leading
              /\ Len(segs) >= 1
              /\ segs[Len(segs)] = <<"b">>
              => call.trace[i] = "hit"

\* C8 witness: "a/**/b" hit a/x/x/b, two directories between a and b
C8_Witness ==
    /\ Called
    /\ rulefiles = OneRuleFile(<<>>, Rule_between)
    /\ call.path = Path_a_x_x_b
    /\ call.trace = <<"hit">>
    /\ call.result

\* C9: "a/**/b" hits a path iff the path has a segment a and, behind it, a
\* segment b; the "**" takes whole segments only.
C9_WholeSegments ==
    Called =>
      \A i \in DOMAIN patterns :
         LET segs == RelSegments(i) IN
         /\ patterns[i].original = Rule_between
         /\ InScope(call.path, patterns[i].source_dir)
         => (call.trace[i] = "hit")
              = (\E m, n \in 1..Len(segs) :
                    m < n /\ segs[m] = <<"a">> /\ segs[n] = <<"b">>)

----------------------------------------------------------------------------
(* Properties of the wildcard engine (specification SpecWild).             *)

\* a wildmatch() call has returned
WildDone == w_pc = "done"

\* the glob pattern p from position i takes the text t from position j: a
\* literal takes the same character (the same letter under cf), '?' takes
\* one character, '*' takes any string, and under pn neither takes a '/'
RECURSIVE Glob(_, _, _, _, _, _)
Glob(p, i, t, j, cf, pn) ==
    IF i > Len(p)
    THEN j > Len(t)
    ELSE IF p[i] = "*"
    THEN \/ Glob(p, i + 1, t, j, cf, pn)
         \/ /\ j <= Len(t)
            /\ ~(pn /\ t[j] = "/")
            /\ Glob(p, i, t, j + 1, cf, pn)
    ELSE /\ j <= Len(t)
         /\ IF p[i] = "?"
            THEN ~(pn /\ t[j] = "/")
            ELSE IF cf THEN Lower(p[i]) = Lower(t[j]) ELSE p[i] = t[j]
         /\ Glob(p, i + 1, t, j + 1, cf, pn)

WithCasefold == HasFlag(w_flags, WM_CASEFOLD)
WithPathname == HasFlag(w_flags, WM_PATHNAME)

\* C10: for patterns of literals, '?' and '*' and every set of the flags
\* CASEFOLD and PATHNAME, wildmatch returns MATCH exactly when the glob
\* semantics holds, whatever the search prunes; "*" under PATHNAME matches
\* the texts without '/'; "s/*.c" matches s/m.c and not s/d/m.c; a pattern
\* without '?' and '*' matches the text equal to it.
C10_GlobSemantics ==
    WildDone =>
      /\ w_res \in {WM_MATCH, WM_NOMATCH}
      /\ (w_res = WM_MATCH)
           = Glob(w_pattern, 1, w_text, 1, WithCasefold, WithPathname)
      /\ w_pattern = <<"*">> /\ WithPathname =>
           (w_res = WM_MATCH) = ~Contains(w_text, "/")
      /\ w_pattern = Pattern_s_any_c /\ WithPathname =>
           /\ w_text = Text_s_m_c => w_res = WM_MATCH
           /\ w_text = Text_s_d_m_c => w_res = WM_NOMATCH
      /\ ~Contains(w_pattern, "*") /\ ~Contains(w_pattern, "?") =>
           (w_res = WM_MATCH)
             = IF WithCasefold
               THEN LowerStr(w_pattern) = LowerStr(w_text)
               ELSE w_pattern = w_text

\* C10 witness: on "s/d/m.c" the '*' of "s/*.c" stopped at the second '/'
\* and dowild gave up with ABORT_TO_STARSTAR
C10_Witness ==
    /\ WildDone
    /\ w_pattern = Pattern_s_any_c
    /\ w_text = Text_s_d_m_c
    /\ w_flags = WM_PATHNAME
    /\ w_dowild = WM_ABORT_TO_STARSTAR
    /\ w_res = WM_NOMATCH

\* C11: under PATHNAME "**/x" matches "x", "a/x" and "a/b/x" and does not
\* match "ax".
C11_LeadingDoubleStar ==
    WildDone /\ w_pattern = Pattern_starstar_x /\ WithPathname =>
      /\ w_text \in {Text_x, Text_a_x, Text_a_b_x} => w_res = WM_MATCH
      /\ w_text = Text_ax => w_res = WM_NOMATCH

----------------------------------------------------------------------------
(* Properties of bracket expressions (specification SpecBracket).          *)

WithUnicode == HasFlag(w_flags, WM_UNICODE)

\* the body B and the negation mark of the bracket expression in w_pattern
BracketMark ==
    IF w_pattern[2] \in {"!", "^"} THEN <<w_pattern[2]>> ELSE <<>>
BracketBody ==
    SubSeq(w_pattern, 2 + Len(BracketMark), Len(w_pattern) - 1)

\* C12: for every body B of literals, ranges and POSIX classes, every
\* character c and every set of flags, "[!B]" matches c iff "[B]" does not,
\* and "[^B]" gives what "[!B]" gives.
C12_BracketNegation ==
    WildDone /\ BracketMark # <<>> =>
      /\ (w_res = WM_MATCH)
           = (wildmatch(Bracket(<<>>, BracketBody), w_text, w_flags)
                # WM_MATCH)
      /\ w_res = wildmatch(Bracket(<<"!">>, BracketBody), w_text, w_flags)

\* C20: under UNICODE a POSIX class keeps its Unicode meaning next to other
\* members: "[[:alpha:]]" and "[[:alpha:]_]" match the letters U+00C0 and
\* U+00DF, and a bracket expression with one more member matches every
\* character it matched without that member.
C20_UnicodeClassAmongMembers ==
    WildDone /\ WithUnicode /\ BracketMark = <<>> =>
      /\ /\ w_text \in {<<"À">>, <<"ß">>}
         /\ BracketBody \in {Class_alpha, Class_alpha \o <<"_">>}
         => w_res = WM_MATCH
      /\ w_res = WM_MATCH =>
           \A m \in Members :
              /\ wildmatch(Bracket(<<>>, BracketBody \o m), w_text, w_flags)
                   = WM_MATCH
              /\ wildmatch(Bracket(<<>>, m \o BracketBody), w_text, w_flags)
                   = WM_MATCH

----------------------------------------------------------------------------
(* Properties of repeated calls (specification SpecCalls).                 *)

\* the rules a scanner loads from the rule files, for every order in which
\* os.walk may list the directories
LoadedRules == {load_patterns(rulefiles, walk, casefold) : walk \in Walks}

\* the answer of every scanner loaded from the same rule files
AnswerOfEveryScanner ==
    \A pats \in LoadedRules :
        should_ignore(pats, call.path, call.is_dir) = call.result

\* should_ignore leaves self.patterns as it is
PatternsKept == pc # "new" => patterns' = patterns

\* C18: should_ignore never changes self.patterns, and after any sequence
\* of calls the answer is the one the rule files, the path and is_dir
\* determine: the answer a scanner freshly loaded from the same rule files
\* gives.
C18_Determinism ==
    /\ [](Called => patterns \in LoadedRules /\ AnswerOfEveryScanner)
    /\ [][PatternsKept]_vars

\* C18 witness: a second call on the same scanner; "!k.t" of s un-ignores
\* s/k.t, as it would for a first call
C18_Witness ==
    /\ Called
    /\ ncalls = 2
    /\ rulefiles = FilesOf(<<Line_glob>>, <<"s">>, <<Line_keep>>)
    /\ call.path = Path_s_k_t
    /\ ~call.result

----------------------------------------------------------------------------
(* Properties of rules that do not compile (specification SpecBroken).     *)

\* the rule has a '/' and re.compile() raised re.error on its regular
\* expression
Uncompilable(r) == Contains(r.raw_pattern, "/") /\ ~r.regex.ok

\* the rule files without the lines whose rule does not compile
CompilableLines ==
    [d \in Dirs |->
        SelectSeq(rulefiles[d],
                  LAMBDA l : ~Uncompilable(GitIgnorePattern(CleanLine(l), d,
                                                            casefold)))]

\* C17: a line whose regular expression does not compile ("s/[z-a]") still
\* gives a rule, the rule hits no path, every other line gives its rule as
\* before, and should_ignore returns what it returns for the rule files
\* without the bad lines.
C17_UncompilableRule ==
    /\ pc # "new" => \A d \in Dirs : OriginalsOf(d) = TextsOf(d)
    /\ Called =>
         /\ \A i \in DOMAIN patterns :
               Uncompilable(patterns[i]) => call.trace[i] # "hit"
         /\ \A walk \in Walks :
               should_ignore(load_patterns(CompilableLines, walk, casefold),
                             call.path, call.is_dir) = call.result

\* C17 witness: "s/[z-a]" stands in front of "*.t" in the root rule file;
\* its rule was tried on s/a.t and missed, and "*.t" ignores s/a.t
C17_Witness ==
    /\ Called
    /\ rulefiles = FilesOf(<<Line_bad, Line_glob>>, <<"s">>, <<>>)
    /\ Len(patterns) = 2
    /\ Uncompilable(patterns[1])
    /\ call.path = Path_s_a_t
    /\ call.trace = <<"miss", "hit">>
    /\ call.result

----------------------------------------------------------------------------
(* Properties of rule lines (specification SpecLines).                     *)

\* the one rule file holds the one line, at the root
OnlyLine(line) == rulefiles = OneRuleFile(<<>>, line)

\* the rule of the line in lower case hits the path in lower case
HitsInLowerCase(i) ==
    hits(GitIgnorePattern(LowerStr(patterns[i].original),
                          patterns[i].source_dir, TRUE),
         LowerStr(RelativeTo(call.path, patterns[i].source_dir)),
         call.is_dir)

\* C13: with casefold, whether a rule hits a path does not depend on the
\* letter case of the rule text or of the path: the rule hits exactly when
\* the lower-case rule hits the lower-case path, for rules without and with
\* '/'; "k.t" hits K.T, "K.T" hits k.t and "S/*.T" hits s/k.t.
C13_CaseInsensitiveRule ==
    Called /\ casefold =>
      /\ \A i \in DOMAIN patterns :
            InScope(call.path, patterns[i].source_dir) =>
              (call.trace[i] = "hit") = HitsInLowerCase(i)
      /\ OnlyLine(Rule_name) /\ call.path = <<"K", ".", "T">> => call.result
      /\ OnlyLine(Rule_upper) /\ call.path = Path_k_t => call.result
      /\ OnlyLine(Rule_mixed) /\ call.path = Path_s_k_t => call.result

\* C13 witness: with casefold "S/*.T" hits s/K.t
C13_Witness ==
    /\ Called
    /\ casefold
    /\ OnlyLine(Rule_mixed)
    /\ call.path = <<"s", "/", "K", ".", "t">>
    /\ call.trace = <<"hit">>
    /\ call.result

\* the pattern has a '[' and no ']'
Unterminated(pattern) == Contains(pattern, "[") /\ ~Contains(pattern, "]")

\* C16: a rule whose pattern has a '[' that no ']' closes is loaded and
\* hits no path, whether it has a '/' ("b/[a") or not ("[ab").
C16_UnterminatedBracket ==
    /\ pc # "new" => \A d \in Dirs : OriginalsOf(d) = TextsOf(d)
    /\ Called =>
         \A i \in DOMAIN patterns :
            Unterminated(patterns[i].raw_pattern) => call.trace[i] # "hit"

\* a line as a rule file should be read: cut at the first '#' without a
\* backslash, white space off the front, and off the end as long as no
\* backslash stands before it
RECURSIVE TrimUnescaped(_)
TrimUnescaped(s) ==
    IF /\ s # <<>>
       /\ IsSpace(s[Len(s)])
       /\ ~(Len(s) >= 2 /\ s[Len(s) - 1] = "\\")
    THEN TrimUnescaped(SubSeq(s, 1, Len(s) - 1))
    ELSE s

PatternTextOf(line) == TrimUnescaped(LStrip(StripComment(line)))

\* the pattern texts the rule file of d should give
ExpectedTextsOf(d) ==
    LET texts == [n \in 1..Len(rulefiles[d]) |->
                     PatternTextOf(rulefiles[d][n])]
    IN SelectSeq(texts, LAMBDA t : t # <<>>)

\* C19: the pattern text of a rule is its line without an unescaped '#' and
\* what follows, without leading white space and without trailing unescaped
\* white space; escaped white space stays: "*.t   " gives "*.t", "\ f.t"
\* and "k\ " stay as they are; blank lines and comment lines give no rule.
C19_LineCleaning ==
    pc # "new" => \A d \in Dirs : OriginalsOf(d) = ExpectedTextsOf(d)

----------------------------------------------------------------------------
(* Properties of backslash escapes (specification SpecEscape).             *)

\* C14: with WM_CASEFOLD the result of wildmatch does not depend on the
\* letter case of the text, for every pattern, escaped literals included:
\* the text and the text in lower case give the same result, and "\A"
\* matches A and a.
C14_CasefoldEverywhere ==
    WildDone /\ WithCasefold =>
      /\ w_res = wildmatch(w_pattern, LowerStr(w_text), w_flags)
      /\ w_pattern = <<"\\", "A">> /\ w_text \in {<<"A">>, <<"a">>} =>
           w_res = WM_MATCH

\* C15: a backslash makes the next pattern character a literal: "\X"
\* matches the text X and no other text, for X among * ? [ ] # space
\* backslash a A; the rule "\#n.t" hits the file #n.t and the rule "\ f.t"
\* hits the file " f.t".
C15_EscapedLiteral ==
    /\ WildDone /\ w_pattern \in {<<"\\", X>> : X \in EscapedChars} =>
         (w_res = WM_MATCH) = (w_text = <<w_pattern[2]>>)
    /\ Called /\ ~call.is_dir =>
         /\ OnlyLine(Line_hash) /\ call.path = <<"#", "n", ".", "t">> =>
              call.trace = <<"hit">> /\ call.result
         /\ OnlyLine(Line_leading) /\ call.path = <<" ", "f", ".", "t">> =>
              call.trace = <<"hit">> /\ call.result

\* C15 witness: "\?" was tried on the text ? and matched
C15_Witness ==
    /\ WildDone
    /\ w_pattern = <<"\\", "?">>
    /\ w_text = <<"?">>
    /\ w_res = WM_MATCH

----------------------------------------------------------------------------
(* Bracket expressions and '/' (specification SpecBracket).                *)

\* C21: under PATHNAME a bracket expression whose body B holds no '/' does
\* not match the text "/": "[B]", "[!B]" and "[^B]" all give NO_MATCH.
C21_SlashOnlyWhenListed ==
    WildDone /\ WithPathname /\ w_text = <<"/">>
             /\ ~Contains(BracketBody, "/") =>
      w_res = WM_NOMATCH

----------------------------------------------------------------------------
(* modules/wildmatch.py and modules/ignore_logic.py: the edition of the    *)
(* scanner that prompt_generator.py imports.  Its hits() calls wildmatch   *)
(* with flags=0, and the engine is modelled for that value of flags.       *)

\* POSIX_MAPPING.get(cls, ('', ''))[0] of modules/wildmatch.py: blank and
\* space are written with the escapes \t \r \n \v \f
modules_PosixAscii(cls) ==
    IF cls = Name_blank
    THEN <<" ", "\\", "t">>
    ELSE IF cls = Name_space
    THEN <<" ", "\\", "t", "\\", "r", "\\", "n", "\\", "v", "\\", "f">>
    ELSE PosixAscii(cls)

\* expand_posix_classes(content, 0) of modules/wildmatch.py, from the
\* 1-based index i on
RECURSIVE modules_expand_posix_classes(_, _)
modules_expand_posix_classes(content, i) ==
    IF i > Len(content)
    THEN <<>>
    ELSE
    LET e == RunEnd(content, i + 2, 97, 122) IN
    IF /\ Slice1(content, i, i + 1) = <<"[", ":">>
       /\ e > i + 2
       /\ Slice1(content, e, e + 1) = <<":", "]">>
    THEN modules_PosixAscii(Slice1(content, i + 2, e - 1))
         \o modules_expand_posix_classes(content, e + 2)
    ELSE <<content[i]>> \o modules_expand_posix_classes(content, i + 1)

RECURSIVE modules_dowild(_, _)
RECURSIVE modules_dowild_loop(_, _, _)

\* the "while True" loop of the '*' branch with flags=0; p is the index
\* after the stars
RECURSIVE modules_dowild_star(_, _, _)
modules_dowild_star(pattern, p, text) ==
    LET res == modules_dowild(From(pattern, p), text) IN
    IF res # WM_NOMATCH
    THEN res
    ELSE IF text = <<>>
    THEN WM_ABORT_ALL
    ELSE modules_dowild_star(pattern, p, Tail(text))

\* the end of the bracket branch: "if matched == negated: return
\* WM_NOMATCH"; m is what the class regex said of text[0], and the loop
\* goes on behind the ']' at index q
modules_dowild_bracket(pattern, q, text, negated, m) ==
    IF m = WM_ABORT_ALL
    THEN WM_ABORT_ALL
    ELSE IF (m = WM_MATCH) = negated
    THEN WM_NOMATCH
    ELSE modules_dowild_loop(pattern, q + 1, Tail(text))

\* the bracket branch; start is the index behind '[' and the negation
\* mark, q the index where the scan for ']' stopped
modules_dowild_class(pattern, start, q, text, negated) ==
    IF q >= Len(pattern)
    THEN WM_ABORT_ALL
    ELSE modules_dowild_bracket(
             pattern, q, text, negated,
             class_matched(
                 class_regex(modules_expand_posix_classes(
                                 Slice1(pattern, start + 1, q), 1),
                             FALSE),
                 text[1], FALSE))

\* the loop of dowild with flags=0; p is the 0-based pattern index
modules_dowild_loop(pattern, p, text) ==
    IF p >= Len(pattern)
    THEN (IF text = <<>> THEN WM_MATCH ELSE WM_NOMATCH)
    ELSE IF text = <<>> /\ pattern[p + 1] # "*"
    THEN WM_ABORT_ALL
    ELSE IF pattern[p + 1] = "\\"
    THEN IF p + 1 >= Len(pattern)
         THEN WM_NOMATCH
         ELSE IF escape_mismatch(pattern[p + 2], text)
         THEN WM_NOMATCH
         ELSE modules_dowild_loop(pattern, p + 2, Tail(text))
    ELSE IF pattern[p + 1] = "?"
    THEN modules_dowild_loop(pattern, p + 1, Tail(text))
    ELSE IF pattern[p + 1] = "*"
    THEN IF SkipStars(pattern, p) >= Len(pattern)
         THEN WM_MATCH
         ELSE modules_dowild_star(pattern, SkipStars(pattern, p), text)
    ELSE IF pattern[p + 1] = "["
    THEN IF p + 1 >= Len(pattern)
         THEN WM_ABORT_ALL
         ELSE IF pattern[p + 2] \in {"!", "^"}
         THEN modules_dowild_class(pattern, p + 2,
                                   BracketScan(pattern, p + 2), text, TRUE)
         ELSE modules_dowild_class(pattern, p + 1,
                                   BracketScan(pattern, p + 1), text, FALSE)
    ELSE IF text[1] # pattern[p + 1]
    THEN WM_NOMATCH
    ELSE modules_dowild_loop(pattern, p + 1, Tail(text))

\* dowild(pattern, text, 0) of modules/wildmatch.py
modules_dowild(pattern, text) ==
    LET anchored == StartsWith(pattern, <<"/">>) IN
    IF anchored /\ ~StartsWith(text, <<"/">>)
    THEN WM_NOMATCH
    ELSE modules_dowild_loop(IF anchored THEN Tail(pattern) ELSE pattern, 0,
                             IF anchored THEN Tail(text) ELSE text)

\* wildmatch(pattern, text, flags=0) of modules/wildmatch.py
modules_wildmatch(pattern, text) ==
    IF modules_dowild(pattern, text) = WM_MATCH THEN WM_MATCH ELSE WM_NOMATCH

\* GitIgnorePattern.__init__ of modules/ignore_logic.py: the regex is
\* compiled for a pattern with '/' only, and never with re.IGNORECASE
modules_GitIgnorePattern(pattern, source_dir) ==
    LET negation == StartsWith(pattern, <<"!">>)
        p1       == IF negation THEN Tail(pattern) ELSE pattern
        dir_only == p1 # <<>> /\ p1[Len(p1)] = "/"
        p2       == IF dir_only THEN RStripSlash(p1) ELSE p1
    IN [original    |-> pattern,
        source_dir  |-> source_dir,
        casefold    |-> FALSE,
        negation    |-> negation,
        dir_only    |-> dir_only,
        raw_pattern |-> p2,
        regex       |-> IF Contains(p2, "/")
                        THEN compile_regex(p2, dir_only)
                        ELSE [ok |-> FALSE, re |-> <<>>]]

\* GitIgnorePattern.hits of modules/ignore_logic.py
modules_hits(self, path, is_dir) ==
    IF self.dir_only /\ ~is_dir
    THEN FALSE
    ELSE IF ~Contains(self.raw_pattern, "/")
    THEN modules_wildmatch(self.raw_pattern, basename(path)) = WM_MATCH
    ELSE hits_path(self, path)

\* collected.sort(key=..., reverse=True): descending depth, and entries of
\* equal depth keep their order
RECURSIVE modules_InsertByDepth(_, _)
modules_InsertByDepth(sorted, x) ==
    IF sorted = <<>>
    THEN <<x>>
    ELSE IF Depth(sorted[Len(sorted)].rel_dir) >= Depth(x.rel_dir)
    THEN Append(sorted, x)
    ELSE Append(modules_InsertByDepth(SubSeq(sorted, 1, Len(sorted) - 1), x),
                sorted[Len(sorted)])

RECURSIVE modules_SortByDepth(_, _)
modules_SortByDepth(collected, n) ==
    IF n = 0
    THEN <<>>
    ELSE modules_InsertByDepth(modules_SortByDepth(collected, n - 1),
                               collected[n])

\* the rules of the sorted lines; a rule with '/' whose regex did not
\* compile is left out
modules_Kept(pats) ==
    SelectSeq(pats,
              LAMBDA pat : pat.regex.ok \/ ~Contains(pat.raw_pattern, "/"))

\* GitIgnoreScanner.load_patterns of modules/ignore_logic.py: the value
\* left in self.patterns
modules_load_patterns(files, walk) ==
    LET collected == Collect(files, walk, 1)
        sorted    == modules_SortByDepth(collected, Len(collected))
    IN modules_Kept([n \in 1..Len(sorted) |->
                        modules_GitIgnorePattern(sorted[n].line,
                                                 sorted[n].rel_dir)])

\* pattern.original.lstrip("!")
RECURSIVE LStripBang(_)
LStripBang(s) ==
    IF s # <<>> /\ s[1] = "!" THEN LStripBang(Tail(s)) ELSE s

\* the path one rule is tried on in modules/ignore_logic.py: a rule of a
\* subdirectory whose text has no '/' is also skipped for a path that lies
\* deeper than that directory
modules_MatchPath(pattern, normalized) ==
    IF pattern.source_dir # <<>>
    THEN LET dir    == Normalize(pattern.source_dir)
             prefix == Append(dir, "/")
             below  == From(normalized, Len(prefix))
         IN IF StartsWith(normalized, prefix)
            THEN (IF /\ ~Contains(LStripBang(pattern.original), "/")
                     /\ Contains(below, "/")
                  THEN <<>>
                  ELSE <<below>>)
            ELSE IF normalized = dir
            THEN << <<>> >>
            ELSE <<>>
    ELSE <<normalized>>

\* the "for pattern in self.patterns" loop of should_ignore in
\* modules/ignore_logic.py
RECURSIVE modules_should_ignore_loop(_, _, _, _, _, _)
modules_should_ignore_loop(pats, n, normalized, is_dir, result, trace) ==
    IF n > Len(pats)
    THEN [result |-> result, trace |-> trace]
    ELSE
    LET match_path == modules_MatchPath(pats[n], normalized) IN
    IF match_path = <<>>
    THEN modules_should_ignore_loop(pats, n + 1, normalized, is_dir, result,
                                    Append(trace, "skip"))
    ELSE IF modules_hits(pats[n], match_path[1], is_dir)
    THEN modules_should_ignore_loop(pats, n + 1, normalized, is_dir,
                                    <<~pats[n].negation>>,
                                    Append(trace, "hit"))
    ELSE modules_should_ignore_loop(pats, n + 1, normalized, is_dir, result,
                                    Append(trace, "miss"))

\* the rule files and the paths tried on the modules edition: the lines
\* "*.t" and "!k.t" in any directories
ModulesFiles == RuleFiles({Line_glob, Line_keep}, MaxRules)
ModulesPaths ==
    {<<"a", ".", "t">>, <<"k", ".", "t">>,
     <<"s", "/", "a", ".", "t">>, <<"s", "/", "k", ".", "t">>,
     <<"s", "/", "d", "/", "a", ".", "t">>,
     <<"s", "/", "d", "/", "k", ".", "t">>,
     <<"o", "/", "a", ".", "t">>, <<"o", "/", "k", ".", "t">>}

\* GitIgnoreScanner(root_dir) of modules/ignore_logic.py, which has no
\* casefold
InitModules ==
    /\ pc = "new"
    /\ casefold = FALSE
    /\ rulefiles \in ModulesFiles
    /\ patterns = <<>>
    /\ call = NoCall
    /\ ncalls = 0
    /\ WildIdle

\* scanner.load_patterns() of modules/ignore_logic.py
ModulesLoadPatterns ==
    /\ pc = "new"
    /\ \E walk \in Walks :
          patterns' = modules_load_patterns(rulefiles, walk)
    /\ pc' = "loaded"
    /\ UNCHANGED <<casefold, rulefiles, call, ncalls>>
    /\ UNCHANGED wild_vars

\* scanner.should_ignore(path, is_dir) of modules/ignore_logic.py
ModulesShouldIgnore(path, is_dir) ==
    /\ pc = "loaded"
    /\ call' = Answered(path, is_dir,
                        modules_should_ignore_loop(patterns, 1,
                                                   Normalize(path), is_dir,
                                                   <<>>, <<>>))
    /\ pc' = "called"
    /\ ncalls' = ncalls + 1
    /\ UNCHANGED <<casefold, rulefiles, patterns>>
    /\ UNCHANGED wild_vars

NextModules ==
    \/ ModulesLoadPatterns
    \/ /\ pc = "loaded"
       /\ \E path \in ModulesPaths, is_dir \in BOOLEAN :
             ModulesShouldIgnore(path, is_dir)

SpecModules == InitModules /\ [][NextModules]_vars

\* the rule files of the claim: "*.t" in the root and "!k.t" in the nested
\* directory D
NestedKeep(D) == FilesOf(<<Line_glob>>, D, <<Line_keep>>)

\* C22: in the modules edition the rule of the deeper directory wins: with
\* "*.t" in the root and "!k.t" in a nested directory D, should_ignore of
\* D/k.t is false and D/a.t stays ignored.
C22_ModulesDeeperRuleWins ==
    Called =>
      \A D \in Dirs \ {<<>>} :
         rulefiles = NestedKeep(D) =>
           /\ call.path = D \o <<"/", "k", ".", "t">> => ~call.result
           /\ call.path = D \o <<"/", "a", ".", "t">> => call.result

----------------------------------------------------------------------------
(* Path rules and what lies beneath a match (specification SpecRule).      *)

\* what may follow a matched path behind a '/': one or two names, and a
\* name with a line feed in it
PlainRemainders == PathsUpTo(2)
Remainders == PlainRemainders \cup {<<"x", "\n", "y">>}

\* rule i has a '/' in its pattern and is not directory-only
IsOpenPathRule(i) ==
    Contains(patterns[i].raw_pattern, "/") /\ ~patterns[i].dir_only

\* a path rule that hit the queried path p also hits p/q for the q of Qs
StaysMatchedBelow(Qs) ==
    \A i \in DOMAIN patterns :
       IsOpenPathRule(i) /\ call.trace[i] = "hit" =>
         \A q \in Qs :
            hits(patterns[i],
                 RelativeTo(Normalize(call.path), patterns[i].source_dir)
                   \o <<"/">> \o q,
                 call.is_dir)

\* "/b/" hits ("b", True) and not ("b/k.t", True)
ExactEndExample ==
    rulefiles = OneRuleFile(<<>>, Rule_anchoredDir) /\ call.is_dir =>
      /\ call.path = Path_b => call.result
      /\ call.path = Path_b_k_t => ~call.result

\* the claim of C23 for remainders without a line feed
StaysMatchedBelowPlain ==
    Called => StaysMatchedBelow(PlainRemainders) /\ ExactEndExample

\* C23: a path rule that is not directory-only and hits a path p hits p/q
\* for every remainder q; the directory-only "/b/" hits ("b", True) and not
\* ("b/k.t", True).
C23_RemainderStaysMatched ==
    Called => StaysMatchedBelow(Remainders) /\ ExactEndExample

----------------------------------------------------------------------------
(* Path rules without a leading '/' (specification SpecUnder).             *)

\* the rules "s/*.t", "s/?.t" and "s/k[0-9]"
Rule_under      == <<"s", "/", "*", ".", "t">>
Rule_underOne   == <<"s", "/", "?", ".", "t">>
Rule_underDigit == <<"s", "/", "k", "[", "0", "-", "9", "]">>

UnderLines == {Rule_under, Rule_underOne, Rule_underDigit}

\* one rule file with one of these lines, in the root or in directory o
UnderFiles ==
    {OneRuleFile(d, line) : d \in {<<>>, <<"o">>}, line \in UnderLines}

\* names of files and directories: s, S, x, k.t, k1
UnderSegments == {<<"s">>, <<"S">>, <<"x">>, <<"k", ".", "t">>, <<"k", "1">>}

\* the paths of one to n of these names
UnderPathsUpTo(n) ==
    {Join(segs) : segs \in UNION {[1..k -> UnderSegments] : k \in 1..n}}

\* paths tried on the rule: in the root and in directory o
UnderPaths ==
    UnderPathsUpTo(MaxSegs - 1)
      \cup {<<"o", "/">> \o p : p \in UnderPathsUpTo(MaxSegs - 2)}

InitUnder == InitScanner(UnderFiles)

NextUnder ==
    \/ LoadPatterns
    \/ /\ pc = "loaded"
       /\ \E path \in UnderPaths, is_dir \in BOOLEAN :
             ShouldIgnore(path, is_dir)

SpecUnder == InitUnder /\ [][NextUnder]_vars

\* the name seg is what the component comp of a rule stands for: "k[0-9]"
\* for k and one digit, a component of literals, '?' and '*' for the names
\* it matches as a glob that takes no '/'
NameTaken(comp, seg, cf) ==
    IF comp = <<"k", "[", "0", "-", "9", "]">>
    THEN /\ Len(seg) = 2
         /\ IF cf THEN Lower(seg[1]) = "k" ELSE seg[1] = "k"
         /\ IsDigitCode(Ord(seg[2]))
    ELSE Glob(comp, 1, seg, 1, cf, TRUE)

\* the two components of rule i are taken by two names of the queried path
\* that follow each other, wherever they stand in the path
TakenSomewhere(i) ==
    LET segs  == RelSegments(i)
        comps == Components(patterns[i].original)
    IN \E k \in 1..(Len(segs) - 1) :
          /\ NameTaken(comps[1], segs[k], casefold)
          /\ NameTaken(comps[2], segs[k + 1], casefold)

Path_s_x_k_t == <<"s", "/", "x", "/", "k", ".", "t">>
Path_x_s_k_t == <<"x", "/", "s", "/", "k", ".", "t">>
Path_x_k1    == <<"x", "/", "k", "1">>

\* "s/*.t" at the root hits s/k.t and x/s/k.t, and neither x/k.t nor
\* s/x/k.t; "s/k[0-9]" does not hit x/k1
UnderExamples ==
    /\ rulefiles = OneRuleFile(<<>>, Rule_under) =>
         /\ call.path \in {Path_s_k_t, Path_x_s_k_t} => call.result
         /\ call.path \in {Path_x_k_t, Path_s_x_k_t} => ~call.result
    /\ rulefiles = OneRuleFile(<<>>, Rule_underDigit) =>
         (call.path = Path_x_k1 => ~call.result)

----------------------------------------------------------------------------
(* Bracket expressions in path rules (specification SpecBracket).          *)

\* the path rule "d/E" for the bracket expression E in w_pattern, and the
\* path "d/c" for the character c in w_text
RuleOfBracket == GitIgnorePattern(<<"d", "/">> \o w_pattern, <<>>, FALSE)
PathOfText    == <<"d", "/">> \o w_text

\* C25: for every bracket expression E and every character c other than
\* '/', the path rule "d/E" hits the path d/c iff wildmatch(E, c,
\* UNICODE|PATHNAME) is MATCH.
C25_BracketInPathRule ==
    WildDone /\ w_flags = WM_UNICODE + WM_PATHNAME /\ w_text # <<"/">> =>
      hits(RuleOfBracket, PathOfText, FALSE) = (w_res = WM_MATCH)

----------------------------------------------------------------------------
(* A rule tried on its own scope directory (specification SpecScope).      *)

\* the rules "*", "?", "k.t" and "!*", in any directories
Rule_any    == <<"*">>
Rule_one    == <<"?">>
Rule_notAny == <<"!", "*">>

ScopeLines == {Rule_any, Rule_one, Rule_name, Rule_notAny}
ScopeFiles == RuleFiles(ScopeLines, MaxRules)

\* the directories s, s/d and o, and files in them
ScopePaths ==
    {<<"s">>, <<"s", "/", "d">>, <<"o">>, <<"s", "/", "k", ".", "t">>,
     <<"o", "/", "x">>}

InitScope == InitScanner(ScopeFiles)

NextScope ==
    \/ LoadPatterns
    \/ /\ pc = "loaded"
       /\ \E path \in ScopePaths, is_dir \in BOOLEAN :
             ShouldIgnore(path, is_dir)

SpecScope == InitScope /\ [][NextScope]_vars

\* the queried path is the scope directory of rule i
AtOwnScope(i) ==
    patterns[i].source_dir # <<>> /\ call.path = patterns[i].source_dir

\* the pattern of rule i, as a glob, matches the empty string
MatchesEmpty(i) ==
    Glob(patterns[i].raw_pattern, 1, <<>>, 1, patterns[i].casefold, TRUE)

\* C26: a rule whose scope directory S is the queried path is not passed
\* over but tried on the empty string: a rule without '/' hits iff its
\* pattern matches the empty string, and a rule that misses leaves the
\* result as it is without the rule; "*" in the rule file of s makes
\* should_ignore(s, True) true, "k.t" and "?" do not.
C26_OwnScopeDirectory ==
    Called =>
      /\ \A i \in DOMAIN patterns :
            AtOwnScope(i) =>
              /\ call.trace[i] # "skip"
              /\ ~Contains(patterns[i].raw_pattern, "/") =>
                   (call.trace[i] = "hit") = MatchesEmpty(i)
              /\ call.trace[i] = "miss" =>
                   should_ignore(RemoveAt(patterns, i), call.path,
                                 call.is_dir) = call.result
      /\ call.path = <<"s">> /\ call.is_dir =>
           /\ rulefiles = FilesOf(<<>>, <<"s">>, <<Rule_any>>) =>
                call.result
           /\ rulefiles = FilesOf(<<>>, <<"s">>, <<Rule_name>>) =>
                ~call.result
           /\ rulefiles = FilesOf(<<>>, <<"s">>, <<Rule_one>>) =>
                ~call.result

\* C26 witness: "*" of the rule file in s was tried on s itself and hit
C26_Witness ==
    /\ Called
    /\ rulefiles = FilesOf(<<>>, <<"s">>, <<Rule_any>>)
    /\ call.path = <<"s">>
    /\ call.is_dir
    /\ AtOwnScope(1)
    /\ call.trace = <<"hit">>
    /\ call.result

----------------------------------------------------------------------------
(* Runs of '*' (specification SpecStars).                                  *)

\* patterns of a, ?, *, backslash and '/', and some with a bracket
\* expression; texts of a, * and '/'
StarPatterns ==
    StringsUpTo({"a", "?", "*", "\\", "/"}, MaxPatLen)
      \cup { <<"[", "*", "*", "]">>, <<"[", "a", "]", "*", "*">>,
             <<"*", "*", "[", "!", "a", "]">> }
StarTexts == StringsUpTo({"a", "*", "/"}, MaxTextLen)

InitStars ==
    /\ pc = "new"
    /\ casefold = FALSE
    /\ rulefiles = [d \in Dirs |-> <<>>]
    /\ patterns = <<>>
    /\ call = NoCall
    /\ ncalls = 0
    /\ w_pc = "idle"
    /\ w_pattern \in StarPatterns
    /\ w_text \in StarTexts
    /\ w_flags \in WildFlags
    /\ w_dowild = WM_NOMATCH
    /\ w_res = WM_NOMATCH

SpecStars == InitStars /\ [][NextWild]_vars

\* p with every run of '*' from index i on replaced by one '*'
RECURSIVE CollapseStars(_, _)
CollapseStars(p, i) ==
    IF i > Len(p)
    THEN <<>>
    ELSE IF p[i] = "*" /\ i < Len(p) /\ p[i + 1] = "*"
    THEN CollapseStars(p, i + 1)
    ELSE <<p[i]>> \o CollapseStars(p, i + 1)

\* the same for the runs of stars that are wildcards: a '*' behind an
\* escaping backslash is a literal and stays as it is
RECURSIVE CollapseWildStars(_, _)
CollapseWildStars(p, i) ==
    IF i > Len(p)
    THEN <<>>
    ELSE IF p[i] = "\\" /\ i < Len(p)
    THEN <<p[i], p[i + 1]>> \o CollapseWildStars(p, i + 2)
    ELSE IF p[i] = "*" /\ i < Len(p) /\ p[i + 1] = "*"
    THEN CollapseWildStars(p, i + 1)
    ELSE <<p[i]>> \o CollapseWildStars(p, i + 1)

\* C27 as claimed: with every run of two or more '*' of the pattern
\* replaced by one '*', dowild and wildmatch return the same.
C27_StarRunsCollapse ==
    WildDone =>
      /\ dowild(CollapseStars(w_pattern, 1), w_text, w_flags) = w_dowild
      /\ wildmatch(CollapseStars(w_pattern, 1), w_text, w_flags) = w_res

\* C27: with every run of two or more wildcard '*' of the pattern replaced
\* by one '*', dowild and wildmatch return the same; a '*' that a backslash
\* escapes is no part of a run.
C27_WildStarRunsCollapse ==
    WildDone =>
      /\ dowild(CollapseWildStars(w_pattern, 1), w_text, w_flags) = w_dowild
      /\ wildmatch(CollapseWildStars(w_pattern, 1), w_text, w_flags) = w_res

\* C27 witness: under PATHNAME "**a" did not take the '/' of "/a", as "*a"
\* does not
C27_Witness ==
    /\ WildDone
    /\ w_pattern = <<"*", "*", "a">>
    /\ w_text = <<"/", "a">>
    /\ w_flags = WM_PATHNAME
    /\ w_dowild = WM_ABORT_TO_STARSTAR
    /\ w_res = WM_NOMATCH

----------------------------------------------------------------------------
(* Malformed patterns (specification SpecMalformed).                       *)

\* what a malformed pattern ends with: a bracket expression without its
\* ']', or a backslash with nothing behind it
OpenBrackets ==
    { <<"[">>, <<"[", "a">>, <<"[", "!", "a">>, <<"[", "a", "-">>,
      <<"[", "[", ":", "a", "l", "p", "h", "a", ":">> }
LoneBackslash == <<"\\">>

\* a malformed pattern is a well-formed pattern of a, ?, * and '/' and
\* such an end
MalformedHeads == StringsUpTo({"a", "?", "*", "/"}, MaxPatLen - 1)
MalformedPatterns ==
    {h \o e : h \in MalformedHeads, e \in OpenBrackets \cup {LoneBackslash}}
MalformedTexts == StringsUpTo({"a", "/"}, MaxTextLen)

InitMalformed ==
    /\ pc = "new"
    /\ casefold = FALSE
    /\ rulefiles = [d \in Dirs |-> <<>>]
    /\ patterns = <<>>
    /\ call = NoCall
    /\ ncalls = 0
    /\ w_pc = "idle"
    /\ w_pattern \in MalformedPatterns
    /\ w_text \in MalformedTexts
    /\ w_flags \in AllFlags
    /\ w_dowild = WM_NOMATCH
    /\ w_res = WM_NOMATCH

SpecMalformed == InitMalformed /\ [][NextWild]_vars

\* the number of characters of p before the first '[' or backslash
RECURSIVE HeadLen(_, _)
HeadLen(p, i) ==
    IF i > Len(p) \/ p[i] \in {"[", "\\"} THEN i - 1 ELSE HeadLen(p, i + 1)

\* the head of the pattern, and the head without the stars it ends with
HeadOf(p) == SubSeq(p, 1, HeadLen(p, 1))
RECURSIVE RStripStars(_)
RStripStars(s) ==
    IF s # <<>> /\ s[Len(s)] = "*"
    THEN RStripStars(SubSeq(s, 1, Len(s) - 1))
    ELSE s
FixedHead(p) == RStripStars(HeadOf(p))

EndsOpenBracket(p) == p[HeadLen(p, 1) + 1] = "["
EndsLoneBackslash(p) == p[HeadLen(p, 1) + 1] = "\\"

\* the malformed end is reached: the head before it holds no '*' but at
\* its end, and takes the first characters of the text one for one
EndReached(p, text, flags) ==
    LET fixed == FixedHead(p) IN
    /\ ~Contains(fixed, "*")
    /\ Len(text) >= Len(fixed)
    /\ wildmatch(fixed, SubSeq(text, 1, Len(fixed)), flags) = WM_MATCH

----------------------------------------------------------------------------
(* The recursion and the loops of dowild (specification SpecDepth).        *)

\* dowild() with its recursion and its loops measured.  res is the code
\* returned, depth the deepest nesting of recursive calls below the call,
\* progress tells that every round of a loop advanced p or shortened the
\* text and that every recursive call got a shorter pattern.  A call nested
\* deeper than fuel is not made: overrun is then true.
Returns(code) ==
    [res |-> code, depth |-> 0, progress |-> TRUE, overrun |-> FALSE]
WithProgress(m, ok) == [m EXCEPT !.progress = m.progress /\ ok]
WithRes(m, code) == [m EXCEPT !.res = code]
Nested(m, shorter) ==
    [res |-> m.res, depth |-> m.depth + 1, progress |-> m.progress /\ shorter,
     overrun |-> m.overrun]
Joined(m, n) ==
    [res      |-> n.res,
     depth    |-> IF m.depth >= n.depth THEN m.depth ELSE n.depth,
     progress |-> m.progress /\ n.progress,
     overrun  |-> m.overrun \/ n.overrun]

RECURSIVE measured_dowild(_, _, _, _)
RECURSIVE measured_loop(_, _, _, _, _)
RECURSIVE measured_star(_, _, _, _, _)

\* the recursive call gone wrong: it is made on the pattern from the last
\* '*' on
measured_recurse_star(pattern, p, text, flags, fuel) ==
    IF fuel = 0
    THEN [res |-> WM_ABORT_ALL, depth |-> 1,
          progress |-> Len(From(pattern, p - 1)) < Len(pattern),
          overrun |-> TRUE]
    ELSE Nested(measured_dowild(From(pattern, p - 1), text, flags, fuel - 1),
                Len(From(pattern, p - 1)) < Len(pattern))

\* "res = dowild(pattern[p:], text, flags)"
measured_recurse(pattern, p, text, flags, fuel) ==
    IF fuel = 0
    THEN [res |-> WM_ABORT_ALL, depth |-> 1,
          progress |-> Len(From(pattern, p)) < Len(pattern),
          overrun |-> TRUE]
    ELSE Nested(measured_dowild(From(pattern, p), text, flags, fuel - 1),
                Len(From(pattern, p)) < Len(pattern))

\* one round of the "while True" loop, m being its recursive call
measured_star_round(m, pattern, q, text, flags, fuel) ==
    IF m.overrun
    THEN m
    ELSE IF m.res # WM_NOMATCH
            /\ (~HasFlag(flags, WM_PATHNAME) \/ m.res # WM_ABORT_TO_STARSTAR)
    THEN m
    ELSE IF text = <<>>
    THEN WithRes(m, WM_ABORT_ALL)
    ELSE IF HasFlag(flags, WM_PATHNAME) /\ text[1] = "/"
    THEN WithRes(m, WM_ABORT_TO_STARSTAR)
    ELSE Joined(WithProgress(m, Len(Tail(text)) < Len(text)),
                measured_star(pattern, q, Tail(text), flags, fuel))

measured_star(pattern, q, text, flags, fuel) ==
    measured_star_round(measured_recurse(pattern, q, text, flags, fuel),
                        pattern, q, text, flags, fuel)

\* "continue" with the index p2 and the text text2
measured_continue(pattern, p, text, flags, fuel, p2, text2) ==
    WithProgress(measured_loop(pattern, p2, text2, flags, fuel),
                 p2 > p \/ Len(text2) < Len(text))

\* one round of the "while p < len(pattern)" loop
measured_char(pattern, p, text, flags, fuel, p_ch) ==
    LET raw_ch == pattern[p + 1]
        t_ch   == IF text = <<>> THEN ""
                  ELSE IF HasFlag(flags, WM_CASEFOLD) THEN Lower(text[1])
                  ELSE text[1]
    IN
    IF text = <<>> /\ raw_ch # "*"
    THEN Returns(WM_ABORT_ALL)
    ELSE IF p_ch = "\\"
    THEN IF p + 1 >= Len(pattern)
         THEN Returns(WM_NOMATCH)
         ELSE IF escape_mismatch(pattern[p + 2], text)
         THEN Returns(WM_NOMATCH)
         ELSE measured_continue(pattern, p, text, flags, fuel,
                                p + 2, Tail(text))
    ELSE IF p_ch = "?"
    THEN IF HasFlag(flags, WM_PATHNAME) /\ text[1] = "/"
         THEN Returns(WM_NOMATCH)
         ELSE measured_continue(pattern, p, text, flags, fuel,
                                p + 1, Tail(text))
    ELSE IF p_ch = "*"
    THEN LET q == SkipStars(pattern, p) IN
         IF q >= Len(pattern)
         THEN (IF HasFlag(flags, WM_PATHNAME) /\ Contains(text, "/")
               THEN Returns(WM_ABORT_TO_STARSTAR)
               ELSE Returns(WM_MATCH))
         ELSE measured_star(pattern, q, text, flags, fuel)
    ELSE IF p_ch = "["
    THEN LET q == BracketScan(pattern, p + 1) IN
         IF q >= Len(pattern) \/ pattern[q + 1] # "]"
         THEN Returns(WM_ABORT_ALL)
         ELSE IF bracket_matched(Slice1(pattern, p + 2, q), text[1], flags)
                   = WM_MATCH
         THEN measured_continue(pattern, p, text, flags, fuel,
                                q + 1, Tail(text))
         ELSE Returns(bracket_matched(Slice1(pattern, p + 2, q), text[1],
                                      flags))
    ELSE IF text = <<>> \/ t_ch # p_ch
    THEN Returns(WM_NOMATCH)
    ELSE measured_continue(pattern, p, text, flags, fuel, p + 1, Tail(text))

measured_loop(pattern, p, text, flags, fuel) ==
    IF p >= Len(pattern)
    THEN Returns(IF text = <<>> THEN WM_MATCH ELSE WM_NOMATCH)
    ELSE measured_char(pattern, p, text, flags, fuel,
                       IF HasFlag(flags, WM_CASEFOLD)
                       THEN Lower(pattern[p + 1])
                       ELSE pattern[p + 1])

measured_dowild(pattern, text, flags, fuel) ==
    LET anchored == StartsWith(pattern, <<"/">>) IN
    IF anchored /\ ~StartsWith(text, <<"/">>)
    THEN Returns(WM_NOMATCH)
    ELSE measured_loop(IF anchored THEN Tail(pattern) ELSE pattern, 0,
                       IF anchored THEN Tail(text) ELSE text, flags, fuel)

\* patterns of a, * and '/' one longer than elsewhere, and some with the
\* other branches of the loop between their stars; texts of a and '/'
DepthPatterns ==
    StringsUpTo({"a", "*", "/"}, MaxPatLen + 1)
      \cup { <<"*", "?", "*", "[", "a", "]", "*", "\\", "a">>,
             <<"*", "[", "!", "/", "]", "*", "a">>,
             <<"*", "/", "*", "/", "*", "a">>,
             <<"*", "\\", "*", "*", "a">> }
DepthTexts == StringsUpTo({"a", "/"}, MaxTextLen + 1)

InitDepth ==
    /\ pc = "new"
    /\ casefold = FALSE
    /\ rulefiles = [d \in Dirs |-> <<>>]
    /\ patterns = <<>>
    /\ call = NoCall
    /\ ncalls = 0
    /\ w_pc = "idle"
    /\ w_pattern \in DepthPatterns
    /\ w_text \in DepthTexts
    /\ w_flags \in AllFlags
    /\ w_dowild = WM_NOMATCH
    /\ w_res = WM_NOMATCH

SpecDepth == InitDepth /\ [][NextWild]_vars

\* the measured call returned what dowild returned, never nested deeper
\* than bound, and made progress everywhere
WithinDepth(m, code, bound) ==
    /\ ~m.overrun
    /\ m.res = code
    /\ m.depth <= bound
    /\ m.progress

\* C29: dowild terminates; its recursive calls are never nested deeper
\* than the pattern is long, each is made on a shorter pattern, and every
\* round of its loops advances the pattern index or shortens the text.
C29_DowildTerminates ==
    WildDone =>
      WithinDepth(measured_dowild(w_pattern, w_text, w_flags,
                                  Len(w_pattern)),
                  w_dowild, Len(w_pattern))

\* the recursive calls of the finished call were nested exactly n deep
DepthIs(m, n) == ~m.overrun /\ m.depth = n

\* C29 witness: "*a*a" on "aa/" went two recursive calls deep
C29_Witness ==
    /\ WildDone
    /\ w_pattern = <<"*", "a", "*", "a">>
    /\ w_text = <<"a", "a", "/">>
    /\ DepthIs(measured_dowild(w_pattern, w_text, w_flags, Len(w_pattern)),
               2)

----------------------------------------------------------------------------
(* runex/core.py: the walkers over the project tree                        *)

Name_git       == <<".", "g", "i", "t">>
Name_gitignore == <<".", "g", "i", "t", "i", "g", "n", "o", "r", "e">>

\* os.path.dirname(path)
RECURSIVE dirname(_)
dirname(path) ==
    IF path = <<>>
    THEN <<>>
    ELSE IF path[Len(path)] = "/"
    THEN SubSeq(path, 1, Len(path) - 1)
    ELSE dirname(SubSeq(path, 1, Len(path) - 1))

\* "os.path.join(parent_path, name) if parent_path else name"
join(parent_path, name) ==
    IF parent_path = <<>> THEN name ELSE parent_path \o <<"/">> \o name

\* a < b, as Python compares strings
RECURSIVE StrLess(_, _)
StrLess(a, b) ==
    IF b = <<>> THEN FALSE
    ELSE IF a = <<>> THEN TRUE
    ELSE IF a[1] # b[1] THEN Ord(a[1]) < Ord(b[1])
    ELSE StrLess(Tail(a), Tail(b))

\* sorted(names)
RECURSIVE sorted(_)
sorted(names) ==
    IF names = {}
    THEN <<>>
    ELSE LET least == CHOOSE x \in names :
                         \A y \in names : x = y \/ StrLess(x, y)
         IN <<least>> \o sorted(names \ {least})

\* The project on disk is its regular files (a set of paths) and its rule
\* files; its directories are those of Dirs and those its files lie in.
DiskDirs(files) == ((Dirs \cup {dirname(f) : f \in files}) \ {<<>>})

\* os.path.isdir(os.path.join(root_dir, path))
isdir(files, path) == path = <<>> \/ path \in DiskDirs(files)

\* a .gitignore file lies in the directory dir
HasRuleFile(rf, dir) == dir \in DOMAIN rf /\ rf[dir] # <<>>

\* the names of the regular files of the directory dir, and of its
\* directories
filenames(files, rf, dir) ==
    {basename(f) : f \in {g \in files : dirname(g) = dir}}
      \cup (IF HasRuleFile(rf, dir) THEN {Name_gitignore} ELSE {})
dirnames(files, dir) ==
    {basename(d) : d \in {e \in DiskDirs(files) : dirname(e) = dir}}

\* "sorted([x for x in os.listdir(full_path) if x != '.git'])"
listdir_sorted(files, rf, dir) ==
    sorted((filenames(files, rf, dir) \cup dirnames(files, dir))
             \ {Name_git})

\* "filtered": the names of the directory parent_path that
\* scanner.should_ignore does not take
filtered(pats, files, parent_path, names) ==
    SelectSeq(names,
              LAMBDA name :
                 ~should_ignore(pats, join(parent_path, name),
                                isdir(files, join(parent_path, name))))

RECURSIVE build_tree(_, _, _, _)
RECURSIVE build_tree_lines(_, _, _, _, _, _)

\* the loop over "filtered" of build_tree.  A line is kept as the path it
\* stands for and whether it ends with '/'; its connectors are not kept.
build_tree_lines(pats, files, rf, parent_path, items, i) ==
    IF i > Len(items)
    THEN <<>>
    ELSE <<[path   |-> join(parent_path, items[i]),
            is_dir |-> isdir(files, join(parent_path, items[i]))]>>
         \o (IF isdir(files, join(parent_path, items[i]))
             THEN build_tree(pats, files, rf, join(parent_path, items[i]))
             ELSE <<>>)
         \o build_tree_lines(pats, files, rf, parent_path, items, i + 1)

\* build_tree(root_dir, prefix, scanner, parent_path)
build_tree(pats, files, rf, parent_path) ==
    build_tree_lines(pats, files, rf, parent_path,
                     filtered(pats, files, parent_path,
                              listdir_sorted(files, rf, parent_path)),
                     1)

RECURSIVE build_tree_data(_, _, _, _)
RECURSIVE build_tree_children(_, _, _, _, _, _)

\* the loop of build_tree_data over the names of a directory
build_tree_children(pats, files, rf, parent_path, names, i) ==
    IF i > Len(names)
    THEN <<>>
    ELSE (IF should_ignore(pats, join(parent_path, names[i]),
                           isdir(files, join(parent_path, names[i])))
          THEN <<>>
          ELSE IF isdir(files, join(parent_path, names[i]))
          THEN <<build_tree_data(pats, files, rf,
                                 join(parent_path, names[i]))>>
          ELSE <<[name |-> names[i]]>>)
         \o build_tree_children(pats, files, rf, parent_path, names, i + 1)

\* build_tree_data(root_dir, scanner, parent_path); the root node is named
\* "." as generate_prompt names it with display_actual_root off
build_tree_data(pats, files, rf, parent_path) ==
    IF isdir(files, parent_path)
    THEN [name     |-> IF parent_path = <<>> THEN <<".">>
                       ELSE basename(parent_path),
          children |-> build_tree_children(
                          pats, files, rf, parent_path,
                          listdir_sorted(files, rf, parent_path), 1)]
    ELSE [name |-> basename(parent_path)]

\* os.walk comes to the directory d: none of the directories on the way
\* was '.git' or taken out of dirnames by scanner.should_ignore
RECURSIVE walked(_, _)
walked(pats, d) ==
    \/ d = <<>>
    \/ /\ basename(d) # Name_git
       /\ ~should_ignore(pats, d, TRUE)
       /\ walked(pats, dirname(d))

\* the loop over sorted(filenames) of one directory: the files that are
\* no .gitignore and that scanner.should_ignore does not take
kept_files(pats, rel_dir, names) ==
    SelectSeq(names,
              LAMBDA filename :
                 /\ filename # Name_gitignore
                 /\ ~should_ignore(pats, join(rel_dir, filename), FALSE))

\* a header, or an entry of files_data, without the content of the file
FileEntries(rel_dir, names) ==
    [n \in 1..Len(names) |->
        [filename |-> names[n], path |-> join(rel_dir, names[n])]]

\* append_file_contents(root_dir, casefold), os.walk going through the
\* directories as walk does
RECURSIVE append_file_contents(_, _, _, _, _)
append_file_contents(pats, files, rf, walk, i) ==
    IF i > Len(walk)
    THEN <<>>
    ELSE (IF walked(pats, walk[i])
          THEN FileEntries(walk[i],
                           kept_files(pats, walk[i],
                                      sorted(filenames(files, rf, walk[i]))))
          ELSE <<>>)
         \o append_file_contents(pats, files, rf, walk, i + 1)

\* append_file_contents_data(root_dir, scanner)
RECURSIVE append_file_contents_data(_, _, _, _, _)
append_file_contents_data(pats, files, rf, walk, i) ==
    IF i > Len(walk)
    THEN <<>>
    ELSE (IF walked(pats, walk[i])
          THEN FileEntries(walk[i],
                           kept_files(pats, walk[i],
                                      sorted(filenames(files, rf, walk[i]))))
          ELSE <<>>)
         \o append_file_contents_data(pats, files, rf, walk, i + 1)

\* generate_prompt(root_dir, casefold, json_mode, only_structure, False)
\* with a scanner that has loaded pats
generate_prompt(pats, files, rf, walk, json_mode, only_structure) ==
    [op        |-> "generate_prompt",
     path      |-> <<>>,
     is_dir    |-> TRUE,
     result    |-> FALSE,
     trace     |-> <<>>,
     json_mode |-> json_mode,
     only_structure |-> only_structure,
     disk      |-> files,
     structure |-> IF json_mode
                   THEN build_tree_data(pats, files, rf, <<>>)
                   ELSE build_tree(pats, files, rf, <<>>),
     files     |-> IF only_structure
                   THEN <<>>
                   ELSE IF json_mode
                   THEN append_file_contents_data(pats, files, rf, walk, 1)
                   ELSE append_file_contents(pats, files, rf, walk, 1)]

----------------------------------------------------------------------------
(* The walkers (specification SpecTree).                                   *)

\* rule files in the root and in s, with the lines "*.t", "!k.t", "d/"
\* and "d"
Line_dir  == <<"d", "/">>
Line_d    == <<"d">>
TreeLines == {Line_glob, Line_keep, Line_dir, Line_d}
TreeFiles ==
    {FilesFrom(entries) :
        entries \in StringsUpTo({<<>>, <<"s">>} \X TreeLines, MaxRules)}

\* the regular files: k.t and s/k.t, and any of s/d/k.t, of a file s/.git
\* (as a submodule has) and of .git/c in the directory .git
File_s_d_k_t == <<"s", "/", "d", "/", "k", ".", "t">>
File_s_git   == join(<<"s">>, Name_git)
File_git_c   == join(Name_git, <<"c">>)
Disks ==
    {{Path_k_t, Path_s_k_t} \cup some :
        some \in SUBSET {File_s_d_k_t, File_s_git, File_git_c}}

InitTree == InitScanner(TreeFiles)

GeneratePrompt(files, json_mode, only_structure) ==
    /\ pc = "new"
    /\ \E walk \in Walks :
          /\ patterns' = load_patterns(rulefiles, walk, casefold)
          /\ call' = generate_prompt(
                        load_patterns(rulefiles, walk, casefold),
                        files, rulefiles, walk, json_mode, only_structure)
    /\ pc' = "prompted"
    /\ UNCHANGED <<casefold, rulefiles, ncalls>>
    /\ UNCHANGED wild_vars

NextTree ==
    \E files \in Disks, json_mode \in BOOLEAN, only_structure \in BOOLEAN :
       GeneratePrompt(files, json_mode, only_structure)

SpecTree == InitTree /\ [][NextTree]_vars

Prompted == pc = "prompted"

\* the paths and kinds that the nodes below a node of the JSON tree stand
\* for
RECURSIVE NodeEntries(_, _)
RECURSIVE ChildEntries(_, _, _)
ChildEntries(children, parent_path, i) ==
    IF i > Len(children)
    THEN {}
    ELSE {[path   |-> join(parent_path, children[i].name),
           is_dir |-> "children" \in DOMAIN children[i]]}
           \cup NodeEntries(children[i],
                            join(parent_path, children[i].name))
           \cup ChildEntries(children, parent_path, i + 1)
NodeEntries(node, path) ==
    IF "children" \in DOMAIN node
    THEN ChildEntries(node.children, path, 1)
    ELSE {}

\* what the structure tree and the contents section of the prompt hold
StructureEntries ==
    IF call.json_mode
    THEN NodeEntries(call.structure, <<>>)
    ELSE {call.structure[i] : i \in 1..Len(call.structure)}
ContentsPaths == {call.files[i].path : i \in 1..Len(call.files)}
Emitted ==
    StructureEntries \cup {[path |-> p, is_dir |-> FALSE] : p \in ContentsPaths}

\* the directories above a path
RECURSIVE Above(_)
Above(path) ==
    IF dirname(path) = <<>> THEN {}
    ELSE {dirname(path)} \cup Above(dirname(path))

\* nothing emitted is ignored, or lies beneath an ignored directory
OnlyKeptEmitted ==
    \A e \in Emitted :
       /\ ~should_ignore(patterns, e.path, e.is_dir)
       /\ \A d \in Above(e.path) : ~should_ignore(patterns, d, TRUE)

\* the files of the contents section are the files of the structure tree
\* without the .gitignore files
ContentsAreTreeFiles ==
    ContentsPaths =
      {e.path : e \in {x \in StructureEntries :
                          ~x.is_dir /\ basename(x.path) # Name_gitignore}}

\* the walkers prune: this part of C30 holds
WalkersPrune == Prompted => OnlyKeptEmitted

\* a file beneath an ignored directory that is not ignored itself is
\* emitted nowhere
PrunedExample ==
    /\ Prompted
    /\ File_s_d_k_t \in call.disk
    /\ should_ignore(patterns, <<"s", "/", "d">>, TRUE)
    /\ ~should_ignore(patterns, File_s_d_k_t, FALSE)
    /\ \A e \in Emitted : e.path # File_s_d_k_t

\* C30: the walkers emit no path that should_ignore takes and no path
\* beneath a directory that should_ignore takes, and the files of the
\* contents section are the files of the structure tree without the
\* .gitignore files.
C30_WalkersEmitKeptOnly ==
    Prompted =>
      /\ OnlyKeptEmitted
      /\ (~call.only_structure => ContentsAreTreeFiles)

====
